---- MODULE Spec2Model ----
(***************************************************************************)
(* Reservation / availability engine of hotelmate-backend.                 *)
(*                                                                         *)
(* The persistent store holds two collections: hotels (keyed by hotel id)  *)
(* and reservations (documents numbered in creation order).  Every service *)
(* method of ReservationService is a sequence of store reads and writes;   *)
(* each read or write is one step of the calling process, so that calls of *)
(* different processes interleave exactly at the store operations.         *)
(***************************************************************************)
EXTENDS Integers, Sequences, FiniteSets, TLC

\* ---------------------------------------------------------------- bounds
MaxRes == 2          \* reservation documents the store may hold
MaxLifeRes == 1      \* reservations followed through every operation of the service
MaxTotalRooms == 2   \* total_rooms of the hotel at creation
MaxReqRooms == 2     \* rooms asked for by a request (the program allows 1..5)
MaxReqGuests == 2    \* guests asked for by a request (the program allows 1..10)
MaxDay == 1          \* latest check-in day a request names
MaxNights == 1       \* longest stay a request names
MaxAvailable == 3    \* largest value the availability counter is followed to
MaxToken == 2        \* values the random part of a confirmation number takes
MaxPage == 3         \* highest page a search asks for
MaxPageLimit == 2    \* largest page size a paging search asks for

Procs == {1, 2}
HotelIds == {"h1"}
MissingHotel == "h0"
Days == 0..(MaxDay + MaxNights)

\* user ids, as the sequences of their characters
UserA == <<"u", "s", "e", "r", "A">>
UserB == <<"u", "s", "e", "r", "B">>
Admin == <<"r", "o", "o", "t">>
Users == {UserA, UserB}

\* current_user of a request: UserResponse.id and UserResponse.is_admin
Callers == [id : Users, is_admin : {FALSE}] \cup [id : {Admin}, is_admin : {TRUE}]

\* values of secrets.token_hex(4)
Tokens == 1..MaxToken
FirstToken == CHOOSE t \in Tokens : \A u \in Tokens : t <= u

VARIABLES hotels, reservations, today, pc, call, loc, result, last

vars == <<hotels, reservations, today, pc, call, loc, result, last>>

\* ------------------------------------------------------------ enumerations
PENDING == "pending"
CONFIRMED == "confirmed"
CHECKED_IN == "checked_in"
CHECKED_OUT == "checked_out"
CANCELLED == "cancelled"
NO_SHOW == "no_show"
ReservationStatus == {PENDING, CONFIRMED, CHECKED_IN, CHECKED_OUT, CANCELLED, NO_SHOW}

PAID == "paid"
PaymentStatus == {"pending", PAID, "partially_paid", "refunded", "failed"}

\* Python's None, for optional integer fields and for optional enum fields
None == -1
NoneStr == "None"
Nil == [type |-> "nil"]

\* results of a service call
OK == "ok"
NOT_FOUND == "not_found"
HOTEL_NOT_FOUND == "hotel_not_found"
NO_AVAILABILITY == "no_availability"
TOO_MANY_GUESTS == "too_many_guests"
INVALID_DATES == "invalid_dates"
CANNOT_CANCEL == "cannot_cancel"
NOT_CONFIRMED == "not_confirmed"
TOO_EARLY == "too_early"
NOT_CHECKED_IN == "not_checked_in"
STORE_ERROR == "store_error"
VALIDATION_ERROR == "validation_error"
FORBIDDEN == "forbidden"

\* ------------------------------------------------------------------ store
\* firebase_service.get_document on the hotels collection, through
\* HotelService.get_hotel_by_id: the hotel document or None
get_hotel_by_id(hotel_id) ==
  IF hotel_id \in DOMAIN hotels THEN hotels[hotel_id] ELSE Nil

\* HotelService.update_hotel_availability: the stored counter is overwritten
\* with the argument
update_hotel_availability(hotel_id, available_rooms) ==
  [hotels EXCEPT ![hotel_id].available_rooms = available_rooms]

\* ReservationService.get_reservation_by_id: the document with its id, or None
get_reservation_by_id(reservation_id) ==
  IF reservation_id \in DOMAIN reservations
  THEN [type |-> "reservation", id |-> reservation_id, doc |-> reservations[reservation_id]]
  ELSE Nil

\* firebase_service.update_document: the named fields of the document are
\* replaced, every other field is kept
update_document(doc, update_data) ==
  [f \in DOMAIN doc |-> IF f \in DOMAIN update_data THEN update_data[f] ELSE doc[f]]

\* ------------------------------------------------------------- processes
Idle(p) == pc[p] = "idle"

\* a call ends: the result is what the caller observes
Finish(p, r) ==
  /\ pc' = [pc EXCEPT ![p] = "done"]
  /\ result' = [result EXCEPT ![p] = r]

Goto(p, label) ==
  /\ pc' = [pc EXCEPT ![p] = label]
  /\ UNCHANGED result

\* a service method is entered by its caller, or by the handler of the
\* router that has let the current user through and makes the call c
Enter(p, c) ==
  \/ Idle(p) /\ call' = [call EXCEPT ![p] = c]
  \/ pc[p] = "authorised" /\ call[p].service = c /\ UNCHANGED call

\* creations that have passed their checks and hold a slot of the store
PendingCreates == Cardinality({q \in Procs : pc[q] = "create_persist"})

\* the store has room for one more reservation document
Room(cap) == Len(reservations) + PendingCreates < cap

\* ------------------------------------------------------ create_reservation
\* request bodies as they arrive: guests and rooms at least 1, any two dates
RawCreateRequests ==
  [hotel_id : HotelIds \cup {MissingHotel}, check_in_date : Days,
   check_out_date : Days, guests : 1..MaxReqGuests, rooms : 1..MaxReqRooms]

\* ReservationCreateRequest.validate_check_in_date: not in the past
validate_check_in_date(rd) == rd.check_in_date >= today

\* the validator that accepts a check-out on the day of the check-in
validate_check_out_date_or_same_day(rd) ==
  validate_check_in_date(rd) => rd.check_out_date >= rd.check_in_date

\* ReservationCreateRequest.validate_check_out_date: after the check-in; the
\* comparison is made when check_in_date passed its own validator
validate_check_out_date(rd) ==
  validate_check_in_date(rd) => rd.check_out_date > rd.check_in_date

\* requests accepted by ReservationCreateRequest: guests and rooms at least
\* 1, check-in not in the past, check-out after check-in
CreateRequests ==
  {rd \in RawCreateRequests : validate_check_in_date(rd) /\ validate_check_out_date(rd)}

\* the check made against the capacity of the hotel instead of its availability
InsufficientRoomsOfCapacity(hotel, rooms) == hotel.total_rooms < rooms

\* line 33
InsufficientRooms(hotel, rooms) == hotel.available_rooms < rooms

\* line 36
TooManyGuests(hotel, guests, rooms) == guests > hotel.max_guests * rooms

\* lines 17-23: "HM", the day of the call, the first four bytes of the user
\* id and the random part, each of a fixed width
generate_confirmation_number(user_id, random_part) ==
  <<"HM", today, IF Len(user_id) > 4 THEN SubSeq(user_id, 1, 4) ELSE user_id,
    random_part>>

\* the reservation priced for one room whatever the number of rooms
NewReservationForOneRoom(rd, hotel, nights, user_id, confirmation_number) ==
  [user_id |-> user_id,
   confirmation_number |-> confirmation_number,
   hotel_id |-> rd.hotel_id,
   check_in_date |-> rd.check_in_date,
   check_out_date |-> rd.check_out_date,
   nights |-> nights,
   guests |-> rd.guests,
   rooms |-> rd.rooms,
   price_per_night |-> hotel.price_per_night,
   total_price |-> nights * hotel.price_per_night,
   status |-> PENDING,
   payment_status |-> "pending",
   created_at |-> today]

\* lines 44-67
NewReservation(rd, hotel, nights, user_id, confirmation_number) ==
  [user_id |-> user_id,
   confirmation_number |-> confirmation_number,
   hotel_id |-> rd.hotel_id,
   check_in_date |-> rd.check_in_date,
   check_out_date |-> rd.check_out_date,
   nights |-> nights,
   guests |-> rd.guests,
   rooms |-> rd.rooms,
   price_per_night |-> hotel.price_per_night,
   total_price |-> nights * hotel.price_per_night * rd.rooms,
   status |-> PENDING,
   payment_status |-> "pending",
   created_at |-> today]

\* lines 29-67: read the hotel, check availability, guests and dates, build
\* the reservation; random_part is what secrets.token_hex gives this call
CreateReservation(p, rd, user_id, random_part) ==
  /\ Idle(p)
  /\ call' = [call EXCEPT ![p] = [op |-> "create", data |-> rd]]
  /\ LET hotel == get_hotel_by_id(rd.hotel_id)
         nights == rd.check_out_date - rd.check_in_date
     IN IF hotel = Nil
        THEN Finish(p, HOTEL_NOT_FOUND) /\ UNCHANGED loc
        ELSE /\ loc' = [loc EXCEPT ![p] =
                          [hotel |-> hotel,
                           reservation |->
                             NewReservation(rd, hotel, nights, user_id,
                               generate_confirmation_number(user_id, random_part)),
                           id |-> None]]
             /\ IF InsufficientRooms(hotel, rd.rooms) THEN Finish(p, NO_AVAILABILITY)
                ELSE IF TooManyGuests(hotel, rd.guests, rd.rooms) THEN Finish(p, TOO_MANY_GUESTS)
                ELSE IF nights <= 0 THEN Finish(p, INVALID_DATES)
                ELSE Goto(p, "create_persist")
  /\ UNCHANGED <<hotels, reservations, today, last>>

\* routers/reservations.py, create_reservation: the request body is
\* validated, and the service is called with the request that passed and
\* the id of the current user
PostReservation(p, rd, current_user, random_part) ==
  IF validate_check_in_date(rd) /\ validate_check_out_date(rd)
  THEN CreateReservation(p, rd, current_user.id, random_part)
  ELSE /\ Idle(p)
       /\ call' = [call EXCEPT ![p] = [op |-> "create", data |-> rd]]
       /\ Finish(p, VALIDATION_ERROR)
       /\ UNCHANGED <<hotels, reservations, today, loc, last>>

\* lines 70-73: the reservation document is added to the store
CreatePersist(p) ==
  /\ pc[p] = "create_persist"
  /\ reservations' = Append(reservations, loc[p].reservation)
  /\ loc' = [loc EXCEPT ![p].id = Len(reservations) + 1]
  /\ Goto(p, "create_availability")
  /\ UNCHANGED <<hotels, today, call, last>>

\* lines 76-80: the hotel's availability is written and the reservation returned
CreateUpdateAvailability(p) ==
  /\ pc[p] = "create_availability"
  /\ hotels' = update_hotel_availability(call[p].data.hotel_id, -call[p].data.rooms)
  /\ Finish(p, OK)
  /\ UNCHANGED <<reservations, today, call, loc, last>>

\* the store failing only after the availability was written
CreatePersistFailsAfterReserve(p) ==
  /\ pc[p] = "create_persist"
  /\ hotels' = update_hotel_availability(call[p].data.hotel_id, -call[p].data.rooms)
  /\ Finish(p, STORE_ERROR)
  /\ UNCHANGED <<reservations, today, call, loc, last>>

\* lines 70-72 and 85-87: create_document raises; the handler's last except
\* clause raises the error of the call, nothing having been written
CreatePersistFails(p) ==
  /\ pc[p] = "create_persist"
  /\ Finish(p, STORE_ERROR)
  /\ UNCHANGED <<hotels, reservations, today, call, loc, last>>

\* lines 76-80 with hotel_service.py lines 308-313: the write of the
\* availability fails in the store; update_hotel_availability returns
\* False, which create_reservation does not look at
CreateUpdateAvailabilityFails(p) ==
  /\ pc[p] = "create_availability"
  /\ Finish(p, OK)
  /\ UNCHANGED <<hotels, reservations, today, call, loc, last>>

\* ------------------------------------------------------ cancel_reservation
\* the check without the CANCELLED case
CannotBeCancelledCheckedOutOnly(status) == status \in {CHECKED_OUT}

\* line 299
CannotBeCancelled(status) == status \in {CANCELLED, CHECKED_OUT}

\* the release this call would make keeps the counter within the range followed
ReleaseFits(reservation_id) ==
  LET reservation == get_reservation_by_id(reservation_id)
  IN IF reservation = Nil THEN TRUE
     ELSE IF CannotBeCancelled(reservation.doc.status) THEN TRUE
     ELSE LET hotel == get_hotel_by_id(reservation.doc.hotel_id)
          IN IF hotel = Nil THEN TRUE
             ELSE hotel.available_rooms + reservation.doc.rooms <= MaxAvailable

\* lines 294-300: read the reservation and check that it can be cancelled
CancelReservation(p, reservation_id) ==
  /\ ReleaseFits(reservation_id)
  /\ Enter(p, [op |-> "cancel", id |-> reservation_id])
  /\ LET reservation == get_reservation_by_id(reservation_id)
     IN IF reservation = Nil
        THEN Finish(p, NOT_FOUND) /\ UNCHANGED loc
        ELSE /\ loc' = [loc EXCEPT ![p] =
                          [hotel |-> Nil, reservation |-> reservation.doc,
                           id |-> reservation_id]]
             /\ IF CannotBeCancelled(reservation.doc.status)
                THEN Finish(p, CANNOT_CANCEL)
                ELSE Goto(p, "cancel_write")
  /\ UNCHANGED <<hotels, reservations, today, last>>

\* lines 303-314: the stored reservation becomes CANCELLED
CancelWrite(p) ==
  /\ pc[p] = "cancel_write"
  /\ reservations' = [reservations EXCEPT ![loc[p].id] =
                        update_document(@, [status |-> CANCELLED])]
  /\ Goto(p, "cancel_get_hotel")
  /\ UNCHANGED <<hotels, today, call, loc, last>>

\* line 317: read the hotel of the reservation
CancelGetHotel(p) ==
  /\ pc[p] = "cancel_get_hotel"
  /\ LET hotel == get_hotel_by_id(loc[p].reservation.hotel_id)
     IN /\ loc' = [loc EXCEPT ![p].hotel = hotel]
        /\ IF hotel = Nil THEN Finish(p, OK) ELSE Goto(p, "cancel_availability")
  /\ UNCHANGED <<hotels, reservations, today, call, last>>

\* lines 318-325: write the availability that was read plus the rooms of
\* the reservation
CancelUpdateAvailability(p) ==
  /\ pc[p] = "cancel_availability"
  /\ hotels' = update_hotel_availability(
                 loc[p].reservation.hotel_id,
                 loc[p].hotel.available_rooms + loc[p].reservation.rooms)
  /\ Finish(p, OK)
  /\ UNCHANGED <<reservations, today, call, loc, last>>

\* ---------------------------------------------------- check_in / check_out
\* the status check that lets a PENDING reservation through as well
NotConfirmedNorPending(reservation) == reservation.status \notin {CONFIRMED, PENDING}

\* line 340
NotConfirmed(reservation) == reservation.status # CONFIRMED

\* the date check that refuses the day of arrival as well
CheckInDateNotBeforeToday(reservation) == reservation.check_in_date >= today

\* line 344
CheckInDateInFuture(reservation) == reservation.check_in_date > today

\* lines 336-345: only a CONFIRMED reservation whose check-in date has come
CheckInReservation(p, reservation_id) ==
  /\ Enter(p, [op |-> "check_in", id |-> reservation_id])
  /\ LET reservation == get_reservation_by_id(reservation_id)
     IN IF reservation = Nil
        THEN Finish(p, NOT_FOUND) /\ UNCHANGED loc
        ELSE /\ loc' = [loc EXCEPT ![p] =
                          [hotel |-> Nil, reservation |-> reservation.doc,
                           id |-> reservation_id]]
             /\ IF NotConfirmed(reservation.doc) THEN Finish(p, NOT_CONFIRMED)
                ELSE IF CheckInDateInFuture(reservation.doc) THEN Finish(p, TOO_EARLY)
                ELSE Goto(p, "check_in_write")
  /\ UNCHANGED <<hotels, reservations, today, last>>

\* lines 347-358
CheckInWrite(p) ==
  /\ pc[p] = "check_in_write"
  /\ reservations' = [reservations EXCEPT ![loc[p].id] =
                        update_document(@, [status |-> CHECKED_IN])]
  /\ Finish(p, OK)
  /\ UNCHANGED <<hotels, today, call, loc, last>>

\* the status check that lets a CONFIRMED reservation through as well
NotCheckedInNorConfirmed(reservation) == reservation.status \notin {CHECKED_IN, CONFIRMED}

\* line 373
NotCheckedIn(reservation) == reservation.status # CHECKED_IN

\* lines 369-374: only a CHECKED_IN reservation
CheckOutReservation(p, reservation_id) ==
  /\ Enter(p, [op |-> "check_out", id |-> reservation_id])
  /\ LET reservation == get_reservation_by_id(reservation_id)
     IN IF reservation = Nil
        THEN Finish(p, NOT_FOUND) /\ UNCHANGED loc
        ELSE /\ loc' = [loc EXCEPT ![p] =
                          [hotel |-> Nil, reservation |-> reservation.doc,
                           id |-> reservation_id]]
             /\ IF NotCheckedIn(reservation.doc) THEN Finish(p, NOT_CHECKED_IN)
                ELSE Goto(p, "check_out_write")
  /\ UNCHANGED <<hotels, reservations, today, last>>

\* lines 376-387
CheckOutWrite(p) ==
  /\ pc[p] = "check_out_write"
  /\ reservations' = [reservations EXCEPT ![loc[p].id] =
                        update_document(@, [status |-> CHECKED_OUT])]
  /\ Finish(p, OK)
  /\ UNCHANGED <<hotels, today, call, loc, last>>

\* ---------------------------------------------------- update_payment_status
\* lines 398-405: the fields written; PAID also writes status CONFIRMED
PaymentUpdateData(payment_status) ==
  IF payment_status = PAID
  THEN [payment_status |-> payment_status, status |-> CONFIRMED]
  ELSE [payment_status |-> payment_status]

\* lines 395-417: one write, no read; writing a missing document raises
UpdatePaymentStatus(p, reservation_id, payment_status) ==
  /\ Enter(p, [op |-> "payment", id |-> reservation_id,
               payment_status |-> payment_status])
  /\ IF reservation_id \in DOMAIN reservations
     THEN /\ reservations' = [reservations EXCEPT ![reservation_id] =
                                update_document(@, PaymentUpdateData(payment_status))]
          /\ loc' = [loc EXCEPT ![p] = [hotel |-> Nil, reservation |-> Nil,
                                        id |-> reservation_id]]
          /\ Finish(p, OK)
     ELSE /\ UNCHANGED <<reservations, loc>>
          /\ Finish(p, STORE_ERROR)
  /\ UNCHANGED <<hotels, today, last>>

\* ------------------------------------------------------ update_reservation
\* requests accepted by ReservationUpdateRequest: every field optional,
\* guests and rooms at least 1, check-out after check-in when both are given
UpdateRequests ==
  {ud \in [check_in_date : Days \cup {None}, check_out_date : Days \cup {None},
           guests : (1..MaxReqGuests) \cup {None}, rooms : (1..MaxReqRooms) \cup {None},
           status : ReservationStatus \cup {NoneStr}] :
     (ud.check_in_date # None /\ ud.check_out_date # None)
        => ud.check_out_date > ud.check_in_date}

\* lines 229-256: the fields of the request that are not None
GivenFields(ud) ==
  {f \in {"check_in_date", "check_out_date", "guests", "rooms"} : ud[f] # None}
    \cup (IF ud.status # NoneStr THEN {"status"} ELSE {})

\* the recalculation made only when both dates are given
BothDatesChanged(ud) == ud.check_in_date # None /\ ud.check_out_date # None

\* line 258
DatesChanged(ud) == ud.check_in_date # None \/ ud.check_out_date # None

\* lines 260-264: the dates and rooms the recalculation uses
MergedCheckIn(ud, existing) ==
  IF ud.check_in_date # None THEN ud.check_in_date ELSE existing.check_in_date

MergedCheckOut(ud, existing) ==
  IF ud.check_out_date # None THEN ud.check_out_date ELSE existing.check_out_date

MergedRooms(ud, existing) == IF ud.rooms # None THEN ud.rooms ELSE existing.rooms

\* update_dict with a confirmation number made anew
UpdateDictRenumbering(ud, existing) ==
  LET nights == MergedCheckOut(ud, existing) - MergedCheckIn(ud, existing)
      recalculated == IF DatesChanged(ud) THEN {"nights", "total_price"} ELSE {}
  IN [f \in GivenFields(ud) \cup recalculated \cup {"confirmation_number"} |->
        IF f = "nights" THEN nights
        ELSE IF f = "total_price"
             THEN nights * existing.price_per_night * MergedRooms(ud, existing)
        ELSE IF f = "confirmation_number"
             THEN generate_confirmation_number(existing.user_id, MaxToken)
        ELSE ud[f]]

\* lines 229-269: update_dict
UpdateDict(ud, existing) ==
  LET nights == MergedCheckOut(ud, existing) - MergedCheckIn(ud, existing)
      recalculated == IF DatesChanged(ud) THEN {"nights", "total_price"} ELSE {}
  IN [f \in GivenFields(ud) \cup recalculated |->
        IF f = "nights" THEN nights
        ELSE IF f = "total_price"
             THEN nights * existing.price_per_night * MergedRooms(ud, existing)
        ELSE ud[f]]

\* lines 224-269: read the reservation, build update_dict, check the dates
UpdateReservation(p, reservation_id, ud) ==
  /\ Enter(p, [op |-> "update", id |-> reservation_id, data |-> ud])
  /\ LET existing == get_reservation_by_id(reservation_id)
     IN IF existing = Nil
        THEN Finish(p, NOT_FOUND) /\ UNCHANGED loc
        ELSE /\ loc' = [loc EXCEPT ![p] =
                          [hotel |-> Nil, reservation |-> existing.doc,
                           id |-> reservation_id]]
             /\ IF DatesChanged(ud)
                   /\ MergedCheckOut(ud, existing.doc) - MergedCheckIn(ud, existing.doc) <= 0
                THEN Finish(p, INVALID_DATES)
                ELSE Goto(p, "update_write")
  /\ UNCHANGED <<hotels, reservations, today, last>>

\* the write that takes the rooms of the reservation from the hotel as well
UpdateWriteTakingRooms(p) ==
  /\ pc[p] = "update_write"
  /\ reservations' = [reservations EXCEPT ![loc[p].id] =
                        update_document(@, UpdateDict(call[p].data, loc[p].reservation))]
  /\ hotels' = [hotels EXCEPT ![loc[p].reservation.hotel_id].available_rooms =
                  @ - MergedRooms(call[p].data, loc[p].reservation)]
  /\ Goto(p, "update_read_back")
  /\ UNCHANGED <<today, call, loc, last>>

\* lines 272-279: update_dict is written to the stored document
UpdateWrite(p) ==
  /\ pc[p] = "update_write"
  /\ reservations' = [reservations EXCEPT ![loc[p].id] =
                        update_document(@, UpdateDict(call[p].data, loc[p].reservation))]
  /\ Goto(p, "update_read_back")
  /\ UNCHANGED <<hotels, today, call, loc, last>>

\* line 282: the stored reservation is read again and returned
UpdateReadBack(p) ==
  /\ pc[p] = "update_read_back"
  /\ loc' = [loc EXCEPT ![p].reservation = get_reservation_by_id(loc[p].id).doc]
  /\ Finish(p, OK)
  /\ UNCHANGED <<hotels, reservations, today, call, last>>

\* ------------------------------------------------- routers/reservations.py
\* the check that lets every logged-in user through
NotAuthenticated(reservation, current_user) == FALSE

\* lines 154, 218, 259 and 321
NotOwnerNorAdmin(reservation, current_user) ==
  reservation.user_id # current_user.id /\ ~current_user.is_admin

\* lines 197-233, get_reservation_by_id: the reservation is read and
\* returned to its owner or to an admin
ApiGetReservation(p, current_user, reservation_id) ==
  /\ Idle(p)
  /\ call' = [call EXCEPT ![p] = [op |-> "api_get", id |-> reservation_id,
                                  caller |-> current_user]]
  /\ LET reservation == get_reservation_by_id(reservation_id)
     IN IF reservation = Nil
        THEN Finish(p, NOT_FOUND) /\ UNCHANGED loc
        ELSE IF NotOwnerNorAdmin(reservation.doc, current_user)
        THEN Finish(p, FORBIDDEN) /\ UNCHANGED loc
        ELSE /\ loc' = [loc EXCEPT ![p] =
                          [hotel |-> Nil, reservation |-> reservation.doc,
                           id |-> reservation_id]]
             /\ Finish(p, OK)
  /\ UNCHANGED <<hotels, reservations, today, last>>

\* ReservationService.get_reservation_by_confirmation: the ids of the
\* documents the query matches; with limit 1 it returns one of them
get_reservation_by_confirmation(confirmation_number) ==
  {id \in DOMAIN reservations :
     reservations[id].confirmation_number = confirmation_number}

\* lines 133-169, get_reservation_by_confirmation
ApiGetReservationByConfirmation(p, current_user, confirmation_number) ==
  /\ Idle(p)
  /\ call' = [call EXCEPT ![p] = [op |-> "api_get_by_confirmation",
                                  confirmation_number |-> confirmation_number,
                                  caller |-> current_user]]
  /\ LET found == get_reservation_by_confirmation(confirmation_number)
     IN IF found = {}
        THEN Finish(p, NOT_FOUND) /\ UNCHANGED loc
        ELSE \E id \in found :
               IF NotOwnerNorAdmin(reservations[id], current_user)
               THEN Finish(p, FORBIDDEN) /\ UNCHANGED loc
               ELSE /\ loc' = [loc EXCEPT ![p] =
                                 [hotel |-> Nil, reservation |-> reservations[id],
                                  id |-> id]]
                    /\ Finish(p, OK)
  /\ UNCHANGED <<hotels, reservations, today, last>>

\* no request taken to change the status
StatusChangeNeverDenied(current_user, ud) == FALSE

\* line 266: a user who is not an admin asks for another status
StatusChangeDenied(current_user, ud) == ~current_user.is_admin /\ ud.status # NoneStr

\* lines 250-275, update_reservation: the reservation is read, the current
\* user checked, and the service called
ApiUpdateReservation(p, current_user, reservation_id, ud) ==
  /\ Idle(p)
  /\ call' = [call EXCEPT ![p] =
                [op |-> "api_update", id |-> reservation_id, data |-> ud,
                 caller |-> current_user,
                 service |-> [op |-> "update", id |-> reservation_id, data |-> ud]]]
  /\ LET existing_reservation == get_reservation_by_id(reservation_id)
     IN IF existing_reservation = Nil THEN Finish(p, NOT_FOUND)
        ELSE IF NotOwnerNorAdmin(existing_reservation.doc, current_user)
        THEN Finish(p, FORBIDDEN)
        ELSE IF StatusChangeDenied(current_user, ud)
        THEN Finish(p, FORBIDDEN)
        ELSE Goto(p, "authorised")
  /\ UNCHANGED <<hotels, reservations, today, loc, last>>

\* lines 312-330, cancel_reservation: the reservation is read, the current
\* user checked, and the service called
ApiCancelReservation(p, current_user, reservation_id) ==
  /\ Idle(p)
  /\ ReleaseFits(reservation_id)
  /\ call' = [call EXCEPT ![p] =
                [op |-> "api_cancel", id |-> reservation_id,
                 caller |-> current_user,
                 service |-> [op |-> "cancel", id |-> reservation_id]]]
  /\ LET existing_reservation == get_reservation_by_id(reservation_id)
     IN IF existing_reservation = Nil THEN Finish(p, NOT_FOUND)
        ELSE IF NotOwnerNorAdmin(existing_reservation.doc, current_user)
        THEN Finish(p, FORBIDDEN)
        ELSE Goto(p, "authorised")
  /\ UNCHANGED <<hotels, reservations, today, loc, last>>

\* app.routers.auth.get_current_admin, the dependency of the operations
\* kept for admins: it lets the request through for a user whose role
\* flag is_admin is set and answers 403 for every other user
get_current_admin(current_user) == current_user.is_admin

\* lines 356-377, check_in_reservation: the current user is an admin, the
\* reservation is read, and the service called
ApiCheckInReservation(p, current_user, reservation_id) ==
  /\ Idle(p)
  /\ call' = [call EXCEPT ![p] =
                [op |-> "api_check_in", id |-> reservation_id,
                 caller |-> current_user,
                 service |-> [op |-> "check_in", id |-> reservation_id]]]
  /\ IF ~get_current_admin(current_user) THEN Finish(p, FORBIDDEN)
     ELSE IF get_reservation_by_id(reservation_id) = Nil THEN Finish(p, NOT_FOUND)
     ELSE Goto(p, "authorised")
  /\ UNCHANGED <<hotels, reservations, today, loc, last>>

\* lines 402-423, check_out_reservation: the current user is an admin, the
\* reservation is read, and the service called
ApiCheckOutReservation(p, current_user, reservation_id) ==
  /\ Idle(p)
  /\ call' = [call EXCEPT ![p] =
                [op |-> "api_check_out", id |-> reservation_id,
                 caller |-> current_user,
                 service |-> [op |-> "check_out", id |-> reservation_id]]]
  /\ IF ~get_current_admin(current_user) THEN Finish(p, FORBIDDEN)
     ELSE IF get_reservation_by_id(reservation_id) = Nil THEN Finish(p, NOT_FOUND)
     ELSE Goto(p, "authorised")
  /\ UNCHANGED <<hotels, reservations, today, loc, last>>

\* lines 448-471, update_payment_status: the current user is an admin, the
\* reservation is read, and the service called
ApiUpdatePaymentStatus(p, current_user, reservation_id, payment_status) ==
  /\ Idle(p)
  /\ call' = [call EXCEPT ![p] =
                [op |-> "api_payment", id |-> reservation_id,
                 caller |-> current_user,
                 service |-> [op |-> "payment", id |-> reservation_id,
                              payment_status |-> payment_status]]]
  /\ IF ~get_current_admin(current_user) THEN Finish(p, FORBIDDEN)
     ELSE IF get_reservation_by_id(reservation_id) = Nil THEN Finish(p, NOT_FOUND)
     ELSE Goto(p, "authorised")
  /\ UNCHANGED <<hotels, reservations, today, loc, last>>

\* ------------------------------------------------------ search_reservations
\* ReservationSearchRequest.limit is at most 100
MaxLimit == 100

\* the conversion that takes every document as it is
from_dict_unvalidated(data) == data

\* ReservationInDB.from_dict: the reservation of a stored document, or None
\* (an exception) for a document whose date or status does not convert
from_dict(data) ==
  IF data.check_in_date # None /\ data.status \in ReservationStatus
  THEN data
  ELSE Nil

\* the elements of a set of numbers in ascending order
RECURSIVE Ascending(_)
Ascending(S) ==
  IF S = {} THEN <<>>
  ELSE LET least == CHOOSE x \in S : \A y \in S : x <= y
       IN <<least>> \o Ascending(S \ {least})

\* lines 124-143 with firebase_service.get_documents: the ids of the
\* documents that satisfy every where clause, a clause being made for
\* user_id, hotel_id, status and guest_email when the request gives it
get_documents(sr) ==
  Ascending({id \in DOMAIN reservations :
               /\ sr.user_id # <<>> => reservations[id].user_id = sr.user_id
               /\ sr.hotel_id # NoneStr => reservations[id].hotel_id = sr.hotel_id
               /\ sr.status # NoneStr => reservations[id].status = sr.status
               /\ sr.guest_email # NoneStr =>
                    reservations[id].guest_email = sr.guest_email})

\* the lower bound taken as exclusive
NotAfterCheckInFrom(reservation, sr) ==
  sr.check_in_from # None /\ reservation.check_in_date <= sr.check_in_from

\* line 152
BeforeCheckInFrom(reservation, sr) ==
  sr.check_in_from # None /\ reservation.check_in_date < sr.check_in_from

\* line 154
AfterCheckInTo(reservation, sr) ==
  sr.check_in_to # None /\ reservation.check_in_date > sr.check_in_to

\* lines 146-160: the documents that convert and pass the date filters
ConvertedAndInRange(sr, all_reservations) ==
  LET Kept(id) ==
        LET reservation == from_dict(reservations[id])
        IN IF reservation = Nil THEN FALSE
           ELSE ~BeforeCheckInFrom(reservation, sr) /\ ~AfterCheckInTo(reservation, sr)
  IN SelectSeq(all_reservations, Kept)

\* the sort that knows check_in_date and created_at only
SortKeyWithoutTotalPrice(sr, id) ==
  IF sr.sort_by = "check_in_date" THEN reservations[id].check_in_date
  ELSE reservations[id].created_at

\* lines 163-177: the key of the sort
SortKey(sr, id) ==
  IF sr.sort_by = "check_in_date" THEN reservations[id].check_in_date
  ELSE IF sr.sort_by = "total_price" THEN reservations[id].total_price
  ELSE reservations[id].created_at

\* list.sort: x is put after the elements that do not come after it, so
\* that elements with equal keys keep their order, reversed or not
RECURSIVE Insert(_, _, _)
Insert(sorted, x, sr) ==
  IF sorted = <<>> THEN <<x>>
  ELSE LET first == Head(sorted)
           stays == IF sr.sort_order = "desc"
                    THEN SortKey(sr, first) >= SortKey(sr, x)
                    ELSE SortKey(sr, first) <= SortKey(sr, x)
       IN IF stays THEN <<first>> \o Insert(Tail(sorted), x, sr)
          ELSE <<x>> \o sorted

RECURSIVE Sorted(_, _)
Sorted(ids, sr) ==
  IF ids = <<>> THEN <<>>
  ELSE Insert(Sorted(SubSeq(ids, 1, Len(ids) - 1), sr), ids[Len(ids)], sr)

\* the element at end_idx taken into the page as well
SliceThroughEnd(list, start_idx, end_idx) ==
  LET last_idx == IF end_idx + 1 < Len(list) THEN end_idx + 1 ELSE Len(list)
  IN IF start_idx >= last_idx THEN <<>> ELSE SubSeq(list, start_idx + 1, last_idx)

\* reservations[start_idx:end_idx]
Slice(list, start_idx, end_idx) ==
  LET last_idx == IF end_idx < Len(list) THEN end_idx ELSE Len(list)
  IN IF start_idx >= last_idx THEN <<>> ELSE SubSeq(list, start_idx + 1, last_idx)

\* lines 180-197: the page and the counts returned
SearchResult(sr) ==
  LET found == Sorted(ConvertedAndInRange(sr, get_documents(sr)), sr)
      total == Len(found)
      total_pages == (total + sr.limit - 1) \div sr.limit
      start_idx == (sr.page - 1) * sr.limit
  IN [reservations |-> Slice(found, start_idx, start_idx + sr.limit),
      total |-> total,
      page |-> sr.page,
      limit |-> sr.limit,
      total_pages |-> total_pages,
      has_next |-> sr.page < total_pages,
      has_previous |-> sr.page > 1]

\* lines 121-201: one query of the store; the result is computed from what
\* the query returned
SearchReservations(p, sr) ==
  /\ Idle(p)
  /\ call' = [call EXCEPT ![p] = [op |-> "search", data |-> sr]]
  /\ loc' = [loc EXCEPT ![p] = SearchResult(sr)]
  /\ Finish(p, OK)
  /\ UNCHANGED <<hotels, reservations, today, last>>

\* ------------------------------------------------------------ search_hotels
ACTIVE == "active"
INACTIVE == "inactive"

\* the documents of the hotels collection a hotel search runs over, in the
\* order of their ids
SearchHotelIds == <<"h1", "h2">>

\* the fields HotelSearchRequest declares
HotelSearchFields ==
  {"query", "city", "category", "min_price", "max_price", "min_rating",
   "amenities", "check_in", "check_out", "guests", "page", "limit",
   "sort_by", "sort_order"}

\* HotelSearchRequest(**params): the model keeps the fields it declares and
\* drops every other keyword it is given
HotelSearchRequest(params) == [f \in HotelSearchFields |-> params[f]]

\* the attributes of the request that search_hotels reads
AttributesRead ==
  {"city", "country", "category", "min_price", "max_price", "min_rating",
   "sort_by", "page", "limit", "amenities", "latitude", "longitude", "radius_km"}

\* a string given and not empty, a number given and not zero
GivenStr(x) == x # NoneStr /\ x # ""
GivenNum(x) == x # None /\ x # 0

\* lines 138-158: the where clauses of the query
HotelQueryMatches(search_request, hotel) ==
  /\ hotel.status = ACTIVE
  /\ GivenStr(search_request.city) => hotel.city = search_request.city
  /\ GivenStr(search_request.country) => hotel.country = search_request.country
  /\ GivenStr(search_request.category) => hotel.category = search_request.category
  /\ GivenNum(search_request.min_price) => hotel.price_per_night >= search_request.min_price
  /\ GivenNum(search_request.max_price) => hotel.price_per_night <= search_request.max_price
  /\ GivenNum(search_request.min_rating) => hotel.rating >= search_request.min_rating

\* lines 161-170: the field the query is ordered by (name stands for the
\* rank of the name in alphabetical order)
HotelOrderKey(search_request, hotel) ==
  IF search_request.sort_by \in {"price_asc", "price_desc"} THEN hotel.price_per_night
  ELSE IF search_request.sort_by = "rating" THEN hotel.rating
  ELSE IF search_request.sort_by = "name" THEN hotel.name
  ELSE hotel.created_at

HotelOrderDescending(search_request) ==
  search_request.sort_by \notin {"price_asc", "name"}

\* positions of SearchHotelIds in the order of the query: by the key, the
\* documents with equal keys by their ids
RECURSIVE OrderBy(_, _, _)
OrderBy(positions, key, descending) ==
  IF positions = {} THEN <<>>
  ELSE LET Before(i, j) ==
             IF key[i] # key[j]
             THEN IF descending THEN key[i] > key[j] ELSE key[i] < key[j]
             ELSE IF descending THEN i >= j ELSE i <= j
           first == CHOOSE i \in positions : \A j \in positions : Before(i, j)
       IN <<first>> \o OrderBy(positions \ {first}, key, descending)

\* query.get(): the ids of the documents of the query, in its order
HotelQuery(search_request) ==
  LET positions == {i \in DOMAIN SearchHotelIds :
                      HotelQueryMatches(search_request, hotels[SearchHotelIds[i]])}
      key == [i \in positions |->
                HotelOrderKey(search_request, hotels[SearchHotelIds[i]])]
      ordered == OrderBy(positions, key, HotelOrderDescending(search_request))
  IN [n \in DOMAIN ordered |-> SearchHotelIds[ordered[n]]]

\* _calculate_distance for two points of one meridian: the kilometres of
\* the degrees of latitude between them
KmPerDegree == 111
_calculate_distance(lat1, lon1, lat2, lon2) ==
  KmPerDegree * (IF lat1 >= lat2 THEN lat1 - lat2 ELSE lat2 - lat1)

\* lines 185-201: a document of the page is dropped when it lacks a
\* requested amenity or lies beyond the radius
HotelKept(search_request, hotel) ==
  /\ search_request.amenities # {} => search_request.amenities \subseteq hotel.amenities
  /\ (/\ GivenNum(search_request.latitude) /\ GivenNum(search_request.longitude)
      /\ GivenNum(search_request.radius_km)
      /\ GivenNum(hotel.latitude) /\ GivenNum(hotel.longitude))
       => _calculate_distance(search_request.latitude, search_request.longitude,
                              hotel.latitude, hotel.longitude)
            <= search_request.radius_km

\* lines 218-220: what the handler returns when anything raised
HotelSearchFailed ==
  [hotels |-> <<>>, total |-> 0, page |-> 1, limit |-> 10, total_pages |-> 0,
   has_next |-> FALSE, has_previous |-> FALSE]

\* lines 135-220.  Reading an attribute the request object does not have
\* raises AttributeError, which the handler's except clause turns into the
\* empty response
search_hotels(search_request) ==
  IF ~(AttributesRead \subseteq DOMAIN search_request) THEN HotelSearchFailed
  ELSE
    LET query == HotelQuery(search_request)
        total_results == Len(query)
        offset == (search_request.page - 1) * search_request.limit
        docs == Slice(query, offset, offset + search_request.limit)
        Kept(id) == HotelKept(search_request, hotels[id])
        found == SelectSeq(docs, Kept)
        total_pages == (total_results + search_request.limit - 1) \div search_request.limit
    IN [hotels |-> found,
        total |-> Len(found),
        page |-> search_request.page,
        limit |-> search_request.limit,
        total_pages |-> total_pages,
        has_next |-> search_request.page < total_pages,
        has_previous |-> search_request.page > 1]

\* routers/hotels.py lines 59-120: GET /hotels/search builds the request
\* from the query parameters and returns what the service returns
SearchHotels(p, params) ==
  /\ Idle(p)
  /\ call' = [call EXCEPT ![p] = [op |-> "search_hotels", data |-> params]]
  /\ loc' = [loc EXCEPT ![p] = search_hotels(HotelSearchRequest(params))]
  /\ Finish(p, OK)
  /\ UNCHANGED <<hotels, reservations, today, last>>

\* ------------------------------------------------- get_hotels_near_location
\* every hotel taken to have coordinates
NoCoordinatesNever(hotel) == FALSE

\* line 357: not hotel.latitude or not hotel.longitude
NoCoordinates(hotel) == ~GivenNum(hotel.latitude) \/ ~GivenNum(hotel.longitude)

\* lines 345-376: the active hotels that have coordinates and lie within
\* the radius, the nearest first, no more than limit of them
get_hotels_near_location(latitude, longitude, radius_km, limit) ==
  LET Distance(i) == _calculate_distance(latitude, longitude,
                                         hotels[SearchHotelIds[i]].latitude,
                                         hotels[SearchHotelIds[i]].longitude)
      positions == {i \in DOMAIN SearchHotelIds :
                      /\ hotels[SearchHotelIds[i]].status = ACTIVE
                      /\ ~NoCoordinates(hotels[SearchHotelIds[i]])
                      /\ Distance(i) <= radius_km}
      nearby_hotels == OrderBy(positions, [i \in positions |-> Distance(i)], FALSE)
      nearest == Slice(nearby_hotels, 0, limit)
  IN [n \in DOMAIN nearest |-> SearchHotelIds[nearest[n]]]

\* routers/hotels.py lines 145-174 with hotel_service.py lines 336-380:
\* GET /hotels/nearby.  The handler awaits query.get(); when what the
\* store's client returns cannot be awaited the await raises and the
\* except clause of lines 378-380 returns the empty list
GetHotelsNearLocation(p, latitude, longitude, radius_km, limit, awaitable) ==
  /\ Idle(p)
  /\ call' = [call EXCEPT ![p] =
                [op |-> "near_location", awaitable |-> awaitable,
                 data |-> [latitude |-> latitude, longitude |-> longitude,
                           radius_km |-> radius_km, limit |-> limit]]]
  /\ loc' = [loc EXCEPT ![p] =
               [hotels |-> IF awaitable
                           THEN get_hotels_near_location(latitude, longitude,
                                                         radius_km, limit)
                           ELSE <<>>]]
  /\ Finish(p, OK)
  /\ UNCHANGED <<hotels, reservations, today, last>>

\* ------------------------------------------------ get_reservation_statistics
\* sum(...) over a list of numbers
RECURSIVE Sum(_)
Sum(numbers) == IF numbers = <<>> THEN 0 ELSE Head(numbers) + Sum(Tail(numbers))

\* the values of a field of the documents whose status is one of statuses
FieldWhereStatus(documents, field, statuses) ==
  LET Counted(r) == r.status \in statuses
      counted == SelectSeq(documents, Counted)
  IN [i \in DOMAIN counted |-> counted[i][field]]

\* round(numerator / denominator * scale, 1), in tenths: a half goes to the
\* even tenth
RoundTenths(numerator, denominator) ==
  LET q == (10 * numerator) \div denominator
      r == (10 * numerator) % denominator
  IN IF 2 * r < denominator THEN q
     ELSE IF 2 * r > denominator THEN q + 1
     ELSE IF q % 2 = 0 THEN q ELSE q + 1

\* line 463: total_rooms summed over the documents of the hotels collection
RECURSIVE RoomsOfHotels(_)
RoomsOfHotels(ids) ==
  IF ids = {} THEN 0
  ELSE LET h == CHOOSE x \in ids : TRUE
       IN hotels[h].total_rooms + RoomsOfHotels(ids \ {h})

\* pending reservations counted as revenue too
RevenueStatusesWithPending == {PENDING, CONFIRMED, CHECKED_IN, CHECKED_OUT}

\* line 445: the statuses whose reservations count as revenue
RevenueStatuses == {CONFIRMED, CHECKED_IN, CHECKED_OUT}

\* lines 423-477: the statistics of the stored reservations;
\* average_stay_length and occupancy_rate in tenths
ReservationStats ==
  LET all_reservations == reservations
      Stays(r) == r.nights > 0
      valid_reservations == SelectSeq(all_reservations, Stays)
      occupied_rooms == Sum(FieldWhereStatus(all_reservations, "rooms",
                                             {CONFIRMED, CHECKED_IN}))
      total_hotel_rooms == RoomsOfHotels(DOMAIN hotels)
  IN IF all_reservations = <<>>
     THEN [total_reservations |-> 0, confirmed_reservations |-> 0,
           pending_reservations |-> 0, cancelled_reservations |-> 0,
           total_revenue |-> 0, average_stay_length |-> 0, occupancy_rate |-> 0]
     ELSE [total_reservations |-> Len(all_reservations),
           confirmed_reservations |->
             Len(FieldWhereStatus(all_reservations, "status", {CONFIRMED})),
           pending_reservations |->
             Len(FieldWhereStatus(all_reservations, "status", {PENDING})),
           cancelled_reservations |->
             Len(FieldWhereStatus(all_reservations, "status", {CANCELLED})),
           total_revenue |->
             Sum(FieldWhereStatus(all_reservations, "total_price", RevenueStatuses)),
           average_stay_length |->
             IF valid_reservations = <<>> THEN 0
             ELSE RoundTenths(Sum([i \in DOMAIN valid_reservations |->
                                     valid_reservations[i].nights]),
                              Len(valid_reservations)),
           occupancy_rate |->
             IF total_hotel_rooms > 0
             THEN RoundTenths(occupied_rooms * 100, total_hotel_rooms)
             ELSE 0]

\* lines 419-481: get_reservation_statistics reads the two collections and
\* returns the statistics
GetReservationStatistics(p) ==
  /\ Idle(p)
  /\ call' = [call EXCEPT ![p] = [op |-> "statistics"]]
  /\ loc' = [loc EXCEPT ![p] = ReservationStats]
  /\ Finish(p, OK)
  /\ UNCHANGED <<hotels, reservations, today, last>>

\* --------------------------------------------------------------- the caller
\* the caller takes the result.  The history keeps, while the latest call
\* that returned is a successful create_reservation, the id of the
\* reservation it made and the availability it found at the hotel
Return(p) ==
  /\ pc[p] = "done"
  /\ last' = IF call[p].op = "create" /\ result[p] = OK
             THEN [id |-> loc[p].id, available_rooms |-> loc[p].hotel.available_rooms]
             ELSE [id |-> None, available_rooms |-> None]
  /\ pc' = [pc EXCEPT ![p] = "idle"]
  /\ call' = [call EXCEPT ![p] = Nil]
  /\ loc' = [loc EXCEPT ![p] = Nil]
  /\ result' = [result EXCEPT ![p] = NoneStr]
  /\ UNCHANGED <<hotels, reservations, today>>

\* ------------------------------------------------------------------ hotels
\* rates a hotel is given
Rates == {450, 500}

\* HotelService.update_hotel with a new price_per_night: the rate of the
\* stored hotel is replaced
UpdateHotelRate(hotel_id, rate) ==
  /\ hotel_id \in DOMAIN hotels
  /\ hotels' = [hotels EXCEPT ![hotel_id].price_per_night = rate]
  /\ UNCHANGED <<reservations, today, pc, call, loc, result, last>>

\* HotelService.update_hotel_availability called with the number of rooms
\* the hotel has on offer
SetHotelAvailability(hotel_id, available_rooms) ==
  /\ hotel_id \in DOMAIN hotels
  /\ available_rooms \in 0..hotels[hotel_id].total_rooms
  /\ hotels' = update_hotel_availability(hotel_id, available_rooms)
  /\ UNCHANGED <<reservations, today, pc, call, loc, result, last>>

\* ------------------------------------------------------------------ clock
\* date.today() moves on to the next day, up to the latest check-in day
NextDay ==
  /\ today < MaxDay
  /\ today' = today + 1
  /\ UNCHANGED <<hotels, reservations, pc, call, loc, result, last>>

\* ------------------------------------------------------------------- Init
\* HotelService.create_hotel: a new hotel has every room available
Init ==
  /\ \E total \in 1..MaxTotalRooms :
       hotels = [h \in HotelIds |->
                   [total_rooms |-> total, available_rooms |-> total,
                    price_per_night |-> 450, max_guests |-> 1]]
  /\ reservations = <<>>
  /\ today = 0
  /\ pc = [p \in Procs |-> "idle"]
  /\ call = [p \in Procs |-> Nil]
  /\ loc = [p \in Procs |-> Nil]
  /\ result = [p \in Procs |-> NoneStr]
  /\ last = [id |-> None, available_rooms |-> None]

ReservationIds == 1..MaxRes

\* guest_email of the reservations of a user
EmailOf(user_id) == IF user_id = UserA THEN "a@example.com" ELSE "b@example.com"

\* stored reservation documents as a search reads them, among them
\* documents whose check_in_date does not convert
StoredDocuments ==
  {[user_id |-> user_id, guest_email |-> EmailOf(user_id), hotel_id |-> hotel_id,
    status |-> status, check_in_date |-> check_in_date,
    total_price |-> 450, created_at |-> 0] :
     user_id \in Users, hotel_id \in HotelIds, status \in {PENDING, CANCELLED},
     check_in_date \in (0..MaxDay) \cup {None}}

\* the stores of at most n documents, created one after the other
RECURSIVE Stores(_)
Stores(n) ==
  IF n = 0 THEN {<<>>}
  ELSE LET shorter == Stores(n - 1)
       IN shorter \cup
            {Append(store, [document EXCEPT !.created_at = Len(store) + 1]) :
               store \in {st \in shorter : Len(st) = n - 1},
               document \in StoredDocuments}

\* a store that holds reservations already, nothing being called
SearchInit ==
  /\ hotels = [h \in HotelIds |->
                 [total_rooms |-> MaxTotalRooms, available_rooms |-> 0,
                  price_per_night |-> 450, max_guests |-> 1]]
  /\ reservations \in Stores(MaxRes)
  /\ today = 0
  /\ pc = [p \in Procs |-> "idle"]
  /\ call = [p \in Procs |-> Nil]
  /\ loc = [p \in Procs |-> Nil]
  /\ result = [p \in Procs |-> NoneStr]
  /\ last = [id |-> None, available_rooms |-> None]

\* update requests that leave the stay (dates, guests) as it is
InventoryUpdates ==
  {ud \in UpdateRequests :
     ud.check_in_date = None /\ ud.check_out_date = None /\ ud.guests = None}

\* the sequential caller
Caller == CHOOSE p \in Procs : \A q \in Procs : p <= q

\* one call at a time, every operation of the service
Next ==
  \/ \E rd \in CreateRequests : Room(MaxLifeRes) /\ CreateReservation(Caller, rd, UserA, FirstToken)
  \/ CreatePersist(Caller)
  \/ CreateUpdateAvailability(Caller)
  \/ \E id \in 1..MaxLifeRes : CancelReservation(Caller, id)
  \/ CancelWrite(Caller)
  \/ CancelGetHotel(Caller)
  \/ CancelUpdateAvailability(Caller)
  \/ \E id \in 1..MaxLifeRes : CheckInReservation(Caller, id)
  \/ CheckInWrite(Caller)
  \/ \E id \in 1..MaxLifeRes : CheckOutReservation(Caller, id)
  \/ CheckOutWrite(Caller)
  \/ \E id \in 1..MaxLifeRes : \E ps \in PaymentStatus : UpdatePaymentStatus(Caller, id, ps)
  \/ \E id \in 1..MaxLifeRes : \E ud \in InventoryUpdates : UpdateReservation(Caller, id, ud)
  \/ UpdateWrite(Caller)
  \/ UpdateReadBack(Caller)
  \/ Return(Caller)

\* search requests that filter: every result on the first page, newest first
FilterRequests ==
  [user_id : {<<>>, UserA}, hotel_id : {NoneStr, MissingHotel},
   status : {NoneStr, PENDING}, guest_email : {NoneStr, EmailOf(UserB)},
   check_in_from : (0..MaxDay) \cup {None}, check_in_to : (0..MaxDay) \cup {None},
   page : {1}, limit : {MaxLimit}, sort_by : {"created_at"}, sort_order : {"desc"}]

\* one search at a time over a store that does not change
SearchNext ==
  \/ \E sr \in FilterRequests : SearchReservations(Caller, sr)
  \/ Return(Caller)

\* stored reservation documents with different prices, whose creation
\* times are not tied to the order the store returns them in
SortedDocuments ==
  [user_id : {UserA}, guest_email : {EmailOf(UserA)}, hotel_id : HotelIds,
   status : {PENDING}, check_in_date : 0..MaxDay, total_price : Rates,
   created_at : 0..MaxDay]

\* a store that holds such reservations already, nothing being called
SortInit ==
  /\ hotels = [h \in HotelIds |->
                 [total_rooms |-> MaxTotalRooms, available_rooms |-> 0,
                  price_per_night |-> 450, max_guests |-> 1]]
  /\ \E n \in 0..MaxRes : reservations \in [1..n -> SortedDocuments]
  /\ today = 0
  /\ pc = [p \in Procs |-> "idle"]
  /\ call = [p \in Procs |-> Nil]
  /\ loc = [p \in Procs |-> Nil]
  /\ result = [p \in Procs |-> NoneStr]
  /\ last = [id |-> None, available_rooms |-> None]

\* search requests that sort: no filter, every result on the first page,
\* the three keys the handler knows and one it does not, in both orders
SortRequests ==
  [user_id : {<<>>}, hotel_id : {NoneStr}, status : {NoneStr},
   guest_email : {NoneStr}, check_in_from : {None}, check_in_to : {None},
   page : {1}, limit : {MaxLimit},
   sort_by : {"check_in_date", "total_price", "created_at", "guest_name"},
   sort_order : {"asc", "desc"}]

\* one sorted search at a time over a store that does not change
SortNext ==
  \/ \E sr \in SortRequests : SearchReservations(Caller, sr)
  \/ Return(Caller)

\* search requests that page: no more than MaxPageLimit results on a page,
\* pages up to MaxPage, every sort the handler knows, in both orders
PageRequests ==
  [user_id : {<<>>}, hotel_id : {NoneStr}, status : {NoneStr, PENDING},
   guest_email : {NoneStr}, check_in_from : {None}, check_in_to : {None},
   page : 1..MaxPage, limit : 1..MaxPageLimit,
   sort_by : {"check_in_date", "total_price", "created_at"},
   sort_order : {"asc", "desc"}]

\* one page at a time of a store that does not change
PageNext ==
  \/ \E sr \in PageRequests : SearchReservations(Caller, sr)
  \/ Return(Caller)

\* hotel documents as a hotel search reads them
HotelDocuments ==
  [name : {1}, status : {ACTIVE, INACTIVE}, city : {"Warsaw", "Krakow"},
   country : {"Poland"}, category : {"hotel"}, price_per_night : {450},
   rating : {3, 5}, amenities : {{"wifi"}}, latitude : {None}, longitude : {None},
   total_rooms : {MaxTotalRooms}, available_rooms : {MaxTotalRooms},
   max_guests : {1}, created_at : {0}]

\* a hotels collection that is filled already, nothing being called
HotelSearchInit ==
  /\ hotels \in [{SearchHotelIds[i] : i \in DOMAIN SearchHotelIds} -> HotelDocuments]
  /\ reservations = <<>>
  /\ today = 0
  /\ pc = [p \in Procs |-> "idle"]
  /\ call = [p \in Procs |-> Nil]
  /\ loc = [p \in Procs |-> Nil]
  /\ result = [p \in Procs |-> NoneStr]
  /\ last = [id |-> None, available_rooms |-> None]

\* the query parameters of GET /hotels/search: a city, a minimum rating,
\* a page and a page size, everything else left out
HotelQueries ==
  [query : {NoneStr}, city : {NoneStr, "Warsaw"}, country : {NoneStr},
   category : {NoneStr}, min_price : {None}, max_price : {None},
   min_rating : {None, 4}, amenities : {{}}, latitude : {None},
   longitude : {None}, radius_km : {None}, check_in : {NoneStr},
   check_out : {NoneStr}, guests : {None}, page : 1..MaxPage,
   limit : {1, MaxLimit}, sort_by : {"rating"}, sort_order : {"asc"}]

\* one hotel search at a time over hotels that do not change
HotelSearchNext ==
  \/ \E params \in HotelQueries : SearchHotels(Caller, params)
  \/ Return(Caller)

\* stored reservation documents as the statistics read them
StatDocuments ==
  [status : ReservationStatus, total_price : Rates, nights : 1..MaxNights,
   rooms : {1}, hotel_id : HotelIds]

\* a store that holds reservations in any status already
StatsInit ==
  /\ hotels = [h \in HotelIds |->
                 [total_rooms |-> MaxTotalRooms, available_rooms |-> 0,
                  price_per_night |-> 450, max_guests |-> 1]]
  /\ \E n \in 0..MaxRes : reservations \in [1..n -> StatDocuments]
  /\ today = 0
  /\ pc = [p \in Procs |-> "idle"]
  /\ call = [p \in Procs |-> Nil]
  /\ loc = [p \in Procs |-> Nil]
  /\ result = [p \in Procs |-> NoneStr]
  /\ last = [id |-> None, available_rooms |-> None]

\* the statistics asked for, one call at a time
StatsNext ==
  \/ GetReservationStatistics(Caller)
  \/ Return(Caller)

\* hotel documents as a geographic search reads them, with coordinates on
\* one meridian or without
GeoDocuments ==
  [name : {1}, status : {ACTIVE, INACTIVE}, city : {"Warsaw"},
   country : {"Poland"}, category : {"hotel"}, price_per_night : {450},
   rating : {5}, amenities : {{"wifi"}}, latitude : {None, 52, 53},
   longitude : {None, 21},
   total_rooms : {MaxTotalRooms}, available_rooms : {MaxTotalRooms},
   max_guests : {1}, created_at : {0}]

\* a hotels collection filled with such hotels, nothing being called
GeoInit ==
  /\ hotels \in [{SearchHotelIds[i] : i \in DOMAIN SearchHotelIds} -> GeoDocuments]
  /\ reservations = <<>>
  /\ today = 0
  /\ pc = [p \in Procs |-> "idle"]
  /\ call = [p \in Procs |-> Nil]
  /\ loc = [p \in Procs |-> Nil]
  /\ result = [p \in Procs |-> NoneStr]
  /\ last = [id |-> None, available_rooms |-> None]

\* the radii asked for, in kilometres
Radii == {50, 200}

\* the query parameters of GET /hotels/search that give a point and a radius
GeoQueries ==
  [query : {NoneStr}, city : {NoneStr}, country : {NoneStr},
   category : {NoneStr}, min_price : {None}, max_price : {None},
   min_rating : {None}, amenities : {{}}, latitude : {52},
   longitude : {21}, radius_km : Radii, check_in : {NoneStr},
   check_out : {NoneStr}, guests : {None}, page : 1..MaxPage,
   limit : {MaxLimit}, sort_by : {"rating"}, sort_order : {"asc"}]

\* one geographic query at a time over hotels that do not change
GeoNext ==
  \/ \E params \in GeoQueries : SearchHotels(Caller, params)
  \/ \E radius_km \in Radii : \E limit \in 1..MaxPageLimit : \E awaitable \in BOOLEAN :
       GetHotelsNearLocation(Caller, 52, 21, radius_km, limit, awaitable)
  \/ Return(Caller)

\* one call at a time, bookings and cancellations only
BookingNext ==
  \/ \E rd \in CreateRequests : Room(MaxRes) /\ CreateReservation(Caller, rd, UserA, FirstToken)
  \/ CreatePersist(Caller)
  \/ CreateUpdateAvailability(Caller)
  \/ \E id \in ReservationIds : CancelReservation(Caller, id)
  \/ CancelWrite(Caller)
  \/ CancelGetHotel(Caller)
  \/ CancelUpdateAvailability(Caller)
  \/ Return(Caller)

\* bookings and cancellations of several processes, interleaved at every
\* store read and write
ConcNext ==
  \/ \E p \in Procs : \E rd \in CreateRequests : Room(MaxRes) /\ CreateReservation(p, rd, UserA, FirstToken)
  \/ \E p \in Procs : CreatePersist(p)
  \/ \E p \in Procs : CreateUpdateAvailability(p)
  \/ \E p \in Procs : \E id \in ReservationIds : CancelReservation(p, id)
  \/ \E p \in Procs : CancelWrite(p)
  \/ \E p \in Procs : CancelGetHotel(p)
  \/ \E p \in Procs : CancelUpdateAvailability(p)
  \/ \E p \in Procs : Return(p)

\* one-room stays of one night for one guest at an existing hotel
StayRequests ==
  {rd \in CreateRequests :
     /\ rd.hotel_id \in HotelIds
     /\ rd.guests = 1
     /\ rd.rooms = 1
     /\ rd.check_out_date = rd.check_in_date + 1}

\* update requests that give the status and nothing else
StatusUpdates ==
  {ud \in UpdateRequests :
     /\ ud.check_in_date = None /\ ud.check_out_date = None
     /\ ud.guests = None /\ ud.rooms = None
     /\ ud.status # NoneStr}

\* a payment that went through and one that did not
LifePayments == {PAID, "failed"}

\* one call at a time, the life of a stay from booking to check-out as the
\* days pass; an update of the status stands for every other way a
\* reservation comes to a status
LifeNext ==
  \/ \E rd \in StayRequests : Room(MaxLifeRes) /\ CreateReservation(Caller, rd, UserA, FirstToken)
  \/ CreatePersist(Caller)
  \/ CreateUpdateAvailability(Caller)
  \/ \E id \in 1..MaxLifeRes : CheckInReservation(Caller, id)
  \/ CheckInWrite(Caller)
  \/ \E id \in 1..MaxLifeRes : CheckOutReservation(Caller, id)
  \/ CheckOutWrite(Caller)
  \/ \E id \in 1..MaxLifeRes : \E ps \in LifePayments : UpdatePaymentStatus(Caller, id, ps)
  \/ \E id \in 1..MaxLifeRes : \E ud \in StatusUpdates : UpdateReservation(Caller, id, ud)
  \/ UpdateWrite(Caller)
  \/ UpdateReadBack(Caller)
  \/ NextDay
  \/ Return(Caller)

\* request bodies for one guest at an existing hotel, with any two dates
PostedRequests ==
  {rd \in RawCreateRequests : rd.hotel_id \in HotelIds /\ rd.guests = 1}

\* one call at a time, request bodies posted for booking while the rate of
\* the hotel changes and the days pass
PostNext ==
  \/ \E rd \in PostedRequests :
       Room(MaxLifeRes)
         /\ PostReservation(Caller, rd, [id |-> UserA, is_admin |-> FALSE], FirstToken)
  \/ CreatePersist(Caller)
  \/ CreateUpdateAvailability(Caller)
  \/ \E h \in HotelIds : \E rate \in Rates : UpdateHotelRate(h, rate)
  \/ NextDay
  \/ Return(Caller)

\* one call at a time, stays booked by several users while the rooms on
\* offer are set again and the days pass
NumberNext ==
  \/ \E rd \in StayRequests : \E user_id \in Users : \E random_part \in Tokens :
       Room(MaxRes) /\ CreateReservation(Caller, rd, user_id, random_part)
  \/ CreatePersist(Caller)
  \/ CreateUpdateAvailability(Caller)
  \/ \E h \in HotelIds : \E n \in 0..MaxTotalRooms : SetHotelAvailability(h, n)
  \/ NextDay
  \/ Return(Caller)

\* one call at a time, bookings against a store whose writes may fail
FaultNext ==
  \/ \E rd \in CreateRequests : Room(MaxLifeRes) /\ CreateReservation(Caller, rd, UserA, FirstToken)
  \/ CreatePersist(Caller)
  \/ CreatePersistFails(Caller)
  \/ CreateUpdateAvailability(Caller)
  \/ CreateUpdateAvailabilityFails(Caller)
  \/ Return(Caller)

\* one-room bookings and cancellations of several processes, interleaved at
\* every store read and write, the rooms on offer being set while nothing
\* is called
RaceNext ==
  \/ \E p \in Procs : \E rd \in StayRequests : Room(MaxRes) /\ CreateReservation(p, rd, UserA, FirstToken)
  \/ \E p \in Procs : CreatePersist(p)
  \/ \E p \in Procs : CreateUpdateAvailability(p)
  \/ \E p \in Procs : \E id \in ReservationIds : CancelReservation(p, id)
  \/ \E p \in Procs : CancelWrite(p)
  \/ \E p \in Procs : CancelGetHotel(p)
  \/ \E p \in Procs : CancelUpdateAvailability(p)
  \/ \E h \in HotelIds : \E n \in 0..MaxTotalRooms :
       (\A p \in Procs : Idle(p)) /\ SetHotelAvailability(h, n)
  \/ \E p \in Procs : Return(p)

\* update requests that raise the rooms to the most a request may ask for
\* and give nothing else
RoomUpdates ==
  {ud \in UpdateRequests :
     /\ ud.check_in_date = None /\ ud.check_out_date = None
     /\ ud.guests = None /\ ud.rooms = MaxReqRooms
     /\ ud.status = NoneStr}

\* one call at a time, every operation of the service on one-room stays
\* whose rooms are changed afterwards
FrameNext ==
  \/ \E rd \in StayRequests : Room(MaxLifeRes) /\ CreateReservation(Caller, rd, UserA, FirstToken)
  \/ CreatePersist(Caller)
  \/ CreateUpdateAvailability(Caller)
  \/ \E id \in 1..MaxLifeRes : CancelReservation(Caller, id)
  \/ CancelWrite(Caller)
  \/ CancelGetHotel(Caller)
  \/ CancelUpdateAvailability(Caller)
  \/ \E id \in 1..MaxLifeRes : CheckInReservation(Caller, id)
  \/ CheckInWrite(Caller)
  \/ \E id \in 1..MaxLifeRes : CheckOutReservation(Caller, id)
  \/ CheckOutWrite(Caller)
  \/ \E id \in 1..MaxLifeRes : UpdatePaymentStatus(Caller, id, PAID)
  \/ \E id \in 1..MaxLifeRes : \E ud \in RoomUpdates : UpdateReservation(Caller, id, ud)
  \/ UpdateWrite(Caller)
  \/ UpdateReadBack(Caller)
  \/ Return(Caller)

\* update requests that give one date or both and nothing else
DateUpdates ==
  {ud \in UpdateRequests :
     /\ ud.check_in_date # None \/ ud.check_out_date # None
     /\ ud.guests = None /\ ud.rooms = None /\ ud.status = NoneStr}

\* one call at a time, stays booked and their dates changed afterwards
DateNext ==
  \/ \E rd \in PostedRequests :
       Room(MaxLifeRes)
         /\ PostReservation(Caller, rd, [id |-> UserA, is_admin |-> FALSE], FirstToken)
  \/ CreatePersist(Caller)
  \/ CreateUpdateAvailability(Caller)
  \/ \E id \in 1..MaxLifeRes : \E ud \in DateUpdates : UpdateReservation(Caller, id, ud)
  \/ UpdateWrite(Caller)
  \/ UpdateReadBack(Caller)
  \/ Return(Caller)

\* cancellations and check-ins of paid bookings, from two callers at once
StatusRaceNext ==
  \/ \E p \in Procs : \E rd \in StayRequests : Room(MaxLifeRes) /\ CreateReservation(p, rd, UserA, FirstToken)
  \/ \E p \in Procs : CreatePersist(p)
  \/ \E p \in Procs : CreateUpdateAvailability(p)
  \/ \E p \in Procs : \E id \in 1..MaxLifeRes : UpdatePaymentStatus(p, id, PAID)
  \/ \E p \in Procs : \E id \in 1..MaxLifeRes : CancelReservation(p, id)
  \/ \E p \in Procs : CancelWrite(p)
  \/ \E p \in Procs : CancelGetHotel(p)
  \/ \E p \in Procs : CancelUpdateAvailability(p)
  \/ \E p \in Procs : \E id \in 1..MaxLifeRes : CheckInReservation(p, id)
  \/ \E p \in Procs : CheckInWrite(p)
  \/ \E p \in Procs : Return(p)

\* update requests of the router: another number of guests, or the
\* departure of the guest recorded
AccessUpdates ==
  {ud \in UpdateRequests :
     /\ ud.check_in_date = None /\ ud.check_out_date = None /\ ud.rooms = None
     /\ (ud.guests = None) # (ud.status = NoneStr)
     /\ ud.status \in {NoneStr, CHECKED_OUT}}

\* confirmation numbers a request may name
ConfirmationNumbers ==
  {generate_confirmation_number(user_id, random_part) :
     user_id \in Users \cup {Admin}, random_part \in Tokens}

\* one request at a time through the router: users and an admin book, read,
\* update and cancel reservations of their own and of others
AccessNext ==
  \/ \E rd \in StayRequests : \E current_user \in Callers : \E random_part \in Tokens :
       Room(MaxLifeRes) /\ PostReservation(Caller, rd, current_user, random_part)
  \/ CreatePersist(Caller)
  \/ CreateUpdateAvailability(Caller)
  \/ \E current_user \in Callers : \E id \in 1..MaxLifeRes :
       ApiGetReservation(Caller, current_user, id)
  \/ \E current_user \in Callers : \E number \in ConfirmationNumbers :
       ApiGetReservationByConfirmation(Caller, current_user, number)
  \/ \E current_user \in Callers : \E id \in 1..MaxLifeRes : \E ud \in AccessUpdates :
       ApiUpdateReservation(Caller, current_user, id, ud)
  \/ \E id \in 1..MaxLifeRes : \E ud \in AccessUpdates :
       ~Idle(Caller) /\ UpdateReservation(Caller, id, ud)
  \/ UpdateWrite(Caller)
  \/ UpdateReadBack(Caller)
  \/ \E current_user \in Callers : \E id \in 1..MaxLifeRes :
       ApiCancelReservation(Caller, current_user, id)
  \/ \E id \in 1..MaxLifeRes : ~Idle(Caller) /\ CancelReservation(Caller, id)
  \/ CancelWrite(Caller)
  \/ CancelGetHotel(Caller)
  \/ CancelUpdateAvailability(Caller)
  \/ Return(Caller)

\* a stay that begins today
RoleRequests == {rd \in StayRequests : rd.check_in_date = 0}

\* update requests of the router: another number of guests, or another
\* status
RoleUpdates == {ud \in AccessUpdates : ud.guests \in {None, MaxReqGuests}}

\* the operations of the router that write a reservation of one user,
\* called by users and by an admin, one call at a time
RoleNext ==
  \/ \E rd \in RoleRequests :
       Room(MaxLifeRes) /\ PostReservation(Caller, rd, [id |-> UserA, is_admin |-> FALSE], FirstToken)
  \/ CreatePersist(Caller)
  \/ CreateUpdateAvailability(Caller)
  \/ \E current_user \in Callers : \E id \in 1..MaxLifeRes : \E ud \in RoleUpdates :
       ApiUpdateReservation(Caller, current_user, id, ud)
  \/ \E id \in 1..MaxLifeRes : \E ud \in RoleUpdates :
       ~Idle(Caller) /\ UpdateReservation(Caller, id, ud)
  \/ UpdateWrite(Caller)
  \/ UpdateReadBack(Caller)
  \/ \E current_user \in Callers : \E id \in 1..MaxLifeRes :
       ApiCancelReservation(Caller, current_user, id)
  \/ \E id \in 1..MaxLifeRes : ~Idle(Caller) /\ CancelReservation(Caller, id)
  \/ CancelWrite(Caller)
  \/ CancelGetHotel(Caller)
  \/ CancelUpdateAvailability(Caller)
  \/ \E current_user \in Callers : \E id \in 1..MaxLifeRes :
       ApiCheckInReservation(Caller, current_user, id)
  \/ \E id \in 1..MaxLifeRes : ~Idle(Caller) /\ CheckInReservation(Caller, id)
  \/ CheckInWrite(Caller)
  \/ \E current_user \in Callers : \E id \in 1..MaxLifeRes :
       ApiCheckOutReservation(Caller, current_user, id)
  \/ \E id \in 1..MaxLifeRes : ~Idle(Caller) /\ CheckOutReservation(Caller, id)
  \/ CheckOutWrite(Caller)
  \/ \E current_user \in Callers : \E id \in 1..MaxLifeRes :
       ApiUpdatePaymentStatus(Caller, current_user, id, PAID)
  \/ \E id \in 1..MaxLifeRes : ~Idle(Caller) /\ UpdatePaymentStatus(Caller, id, PAID)
  \/ Return(Caller)

BookingSpec == Init /\ [][BookingNext]_vars

PageSpec == SearchInit /\ [][PageNext]_vars

HotelSearchSpec == HotelSearchInit /\ [][HotelSearchNext]_vars

StatsSpec == StatsInit /\ [][StatsNext]_vars

FaultSpec == Init /\ [][FaultNext]_vars

RaceSpec == Init /\ [][RaceNext]_vars

FrameSpec == Init /\ [][FrameNext]_vars

DateSpec == Init /\ [][DateNext]_vars

SortSpec == SortInit /\ [][SortNext]_vars

GeoSpec == GeoInit /\ [][GeoNext]_vars

StatusRaceSpec == Init /\ [][StatusRaceNext]_vars

RoleSpec == Init /\ [][RoleNext]_vars

SearchSpec == SearchInit /\ [][SearchNext]_vars

AccessSpec == Init /\ [][AccessNext]_vars

NumberSpec == Init /\ [][NumberNext]_vars

PostSpec == Init /\ [][PostNext]_vars

LifeSpec == Init /\ [][LifeNext]_vars

ConcSpec == Init /\ [][ConcNext]_vars

Spec == Init /\ [][Next]_vars
\* =================================================================== claims
Quiescent == \A p \in Procs : pc[p] \in {"idle", "done"}

ActiveStatus == {PENDING, CONFIRMED, CHECKED_IN}

\* the sum of f over the set S
RECURSIVE SumOver(_, _)
SumOver(S, f) ==
  IF S = {} THEN 0
  ELSE LET x == CHOOSE y \in S : TRUE IN f[x] + SumOver(S \ {x}, f)

\* rooms of the reservations of a hotel that hold inventory
ActiveRooms(h) ==
  LET active == {id \in DOMAIN reservations :
                   reservations[id].hotel_id = h /\ reservations[id].status \in ActiveStatus}
  IN SumOver(active, [id \in active |-> reservations[id].rooms])

\* create_reservation calls that returned a reservation after finding
\* availability a at the hotel
SucceededCreates(a) ==
  {p \in Procs : /\ pc[p] = "done"
                 /\ call[p].op = "create"
                 /\ result[p] = OK
                 /\ loc[p].hotel.available_rooms = a}

\* the step in which process p starts a call of operation op
Starts(p, op) == pc[p] = "idle" /\ pc'[p] # "idle" /\ call'[p].op = op

\* C1: the create_reservation calls that run concurrently against a hotel
\* whose available_rooms is R when they start never succeed for more than R
\* rooms in total (so of two 1-room requests against R = 1 only one succeeds)
C1_ConcurrentCreatesWithinAvailability ==
  \A a \in 0..MaxAvailable :
    SumOver(SucceededCreates(a), [p \in SucceededCreates(a) |-> call[p].data.rooms]) <= a

\* C2: between calls, the rooms of the PENDING, CONFIRMED and CHECKED_IN
\* reservations of a hotel never exceed its total_rooms
C2_NoOverbooking ==
  Quiescent => \A h \in DOMAIN hotels : ActiveRooms(h) <= hotels[h].total_rooms

\* C3: between create_reservation and cancel_reservation calls the
\* availability of a hotel stays within 0..total_rooms
C3_AvailabilityInRange ==
  Quiescent => \A h \in DOMAIN hotels :
    /\ 0 <= hotels[h].available_rooms
    /\ hotels[h].available_rooms <= hotels[h].total_rooms

\* C4: a successful create_reservation for k rooms that found availability a
\* leaves the hotel with availability a - k
C4_CreateDecrementsAvailability ==
  \A p \in Procs :
    (pc[p] = "done" /\ call[p].op = "create" /\ result[p] = OK) =>
      hotels[call[p].data.hotel_id].available_rooms
        = loc[p].hotel.available_rooms - call[p].data.rooms

\* C5: cancelling a reservation right after the create_reservation that made
\* it restores the availability the hotel had before the booking
C5_CancelRestoresAvailability ==
  \A p \in Procs :
    (pc[p] = "done" /\ call[p].op = "cancel" /\ result[p] = OK /\ last.id = call[p].id) =>
      hotels[loc[p].reservation.hotel_id].available_rooms = last.available_rooms

\* C6: cancel_reservation on a reservation that is already CANCELLED fails
\* with the cannot-be-cancelled error and changes neither the reservations
\* nor the hotels; the rooms of a reservation are written back to the
\* availability only by a call that found the reservation not CANCELLED
C6_CancelOfCancelledFails ==
  [][\A p \in Procs :
       /\ \A id \in DOMAIN reservations :
            (Starts(p, "cancel") /\ call'[p].id = id
               /\ reservations[id].status = CANCELLED) =>
              /\ pc'[p] = "done"
              /\ result'[p] = CANNOT_CANCEL
              /\ reservations' = reservations
              /\ hotels' = hotels
       /\ (pc[p] = "cancel_availability" /\ hotels' # hotels) =>
            /\ loc[p].reservation.status # CANCELLED
            /\ reservations[loc[p].id].status = CANCELLED]_vars

C6_Witness ==
  \E p \in Procs :
    /\ pc[p] = "done"
    /\ call[p].op = "cancel"
    /\ result[p] = CANNOT_CANCEL
    /\ loc[p].reservation.status = CANCELLED
    /\ reservations[call[p].id].status = CANCELLED

\* C7: create_reservation asking for more rooms than the hotel has available
\* fails with the no-availability error in its first step: no reservation
\* document is added and the availability is not written
C7_InsufficientInventoryRejected ==
  [][\A p \in Procs : \A h \in DOMAIN hotels :
       (Starts(p, "create") /\ call'[p].data.hotel_id = h
          /\ hotels[h].available_rooms < call'[p].data.rooms) =>
         /\ pc'[p] = "done"
         /\ result'[p] = NO_AVAILABILITY
         /\ reservations' = reservations
         /\ hotels' = hotels]_vars

C7_Witness ==
  \E p \in Procs :
    /\ pc[p] = "done"
    /\ call[p].op = "create"
    /\ result[p] = NO_AVAILABILITY
    /\ loc[p].hotel.available_rooms < call[p].data.rooms
    /\ hotels[call[p].data.hotel_id] = loc[p].hotel

\* C8: cancel_reservation goes ahead only from PENDING or CONFIRMED; from
\* CHECKED_IN, CHECKED_OUT, CANCELLED and NO_SHOW it fails and leaves the
\* reservation and the availability as they are
C8_CancelOnlyFromPendingOrConfirmed ==
  [][\A p \in Procs : \A id \in DOMAIN reservations :
       (Starts(p, "cancel") /\ call'[p].id = id
          /\ reservations[id].status \notin {PENDING, CONFIRMED}) =>
         /\ pc'[p] = "done"
         /\ result'[p] = CANNOT_CANCEL
         /\ reservations' = reservations
         /\ hotels' = hotels]_vars

\* C9: a CHECKED_OUT reservation stays CHECKED_OUT whatever is called on it,
\* and cancel, check_in and check_out on it fail
C9_CheckedOutIsTerminal ==
  [][\A id \in DOMAIN reservations :
       reservations[id].status = CHECKED_OUT =>
         /\ reservations'[id].status = CHECKED_OUT
         /\ \A p \in Procs :
              (pc[p] = "idle" /\ pc'[p] # "idle" /\ call'[p].id = id
                 /\ call'[p].op \in {"cancel", "check_in", "check_out"}) =>
                (pc'[p] = "done" /\ result'[p] \in {CANNOT_CANCEL, NOT_CONFIRMED, NOT_CHECKED_IN})]_vars

\* C10: a CANCELLED reservation stays CANCELLED whatever is called on it
C10_CancelledIsTerminal ==
  [][\A id \in DOMAIN reservations :
       reservations[id].status = CANCELLED => reservations'[id].status = CANCELLED]_vars

\* C11: update_payment_status changes the status of a reservation only when
\* the payment status given is PAID and the reservation is PENDING (it
\* becomes CONFIRMED); PAID on any other status, and every other payment
\* status, leave the status as it is
C11_PaymentConfirmsOnlyPending ==
  [][\A p \in Procs : \A id \in DOMAIN reservations :
       (Starts(p, "payment") /\ call'[p].id = id) =>
         reservations'[id].status =
           IF call'[p].payment_status = PAID /\ reservations[id].status = PENDING
           THEN CONFIRMED
           ELSE reservations[id].status]_vars

\* C12: check_in_reservation on a reservation that is not CONFIRMED fails
\* with the invalid-transition error and leaves the stored reservations as
\* they are; the write of a check-in call turns a CONFIRMED reservation into
\* a CHECKED_IN one and changes nothing else
C12_CheckInOnlyFromConfirmed ==
  [][\A p \in Procs :
       /\ \A id \in DOMAIN reservations :
            (Starts(p, "check_in") /\ call'[p].id = id
               /\ reservations[id].status # CONFIRMED) =>
              /\ pc'[p] = "done"
              /\ result'[p] = NOT_CONFIRMED
              /\ reservations' = reservations
       /\ (pc[p] = "check_in_write" /\ reservations' # reservations) =>
            /\ reservations[loc[p].id].status = CONFIRMED
            /\ reservations' = [reservations EXCEPT ![loc[p].id].status = CHECKED_IN]]_vars

C12_Witness ==
  \E p \in Procs :
    /\ pc[p] = "done"
    /\ call[p].op = "check_in"
    /\ result[p] = NOT_CONFIRMED
    /\ loc[p].reservation.status = CHECKED_OUT
    /\ reservations[call[p].id] = loc[p].reservation

\* C13: check_out_reservation on a reservation that is not CHECKED_IN fails
\* with the invalid-transition error and leaves the stored reservations as
\* they are; the write of a check-out call turns a CHECKED_IN reservation
\* into a CHECKED_OUT one and changes nothing else
C13_CheckOutOnlyFromCheckedIn ==
  [][\A p \in Procs :
       /\ \A id \in DOMAIN reservations :
            (Starts(p, "check_out") /\ call'[p].id = id
               /\ reservations[id].status # CHECKED_IN) =>
              /\ pc'[p] = "done"
              /\ result'[p] = NOT_CHECKED_IN
              /\ reservations' = reservations
       /\ (pc[p] = "check_out_write" /\ reservations' # reservations) =>
            /\ reservations[loc[p].id].status = CHECKED_IN
            /\ reservations' = [reservations EXCEPT ![loc[p].id].status = CHECKED_OUT]]_vars

C13_Witness ==
  \E p \in Procs :
    /\ pc[p] = "done"
    /\ call[p].op = "check_out"
    /\ result[p] = NOT_CHECKED_IN
    /\ loc[p].reservation.status = CONFIRMED
    /\ reservations[call[p].id] = loc[p].reservation

\* C14: check_in_reservation on a CONFIRMED reservation fails, the
\* reservation staying CONFIRMED, when its check_in_date is later than the
\* day of the call, and goes on to make it CHECKED_IN when its check_in_date
\* is the day of the call or earlier
C14_CheckInNotBeforeArrival ==
  [][\A p \in Procs :
       /\ \A id \in DOMAIN reservations :
            (Starts(p, "check_in") /\ call'[p].id = id
               /\ reservations[id].status = CONFIRMED) =>
              IF reservations[id].check_in_date > today
              THEN /\ pc'[p] = "done"
                   /\ result'[p] = TOO_EARLY
                   /\ reservations' = reservations
              ELSE pc'[p] = "check_in_write"
       /\ (pc[p] = "check_in_write" /\ pc'[p] # pc[p]) =>
            /\ pc'[p] = "done"
            /\ result'[p] = OK
            /\ reservations'[loc[p].id].status = CHECKED_IN]_vars

C14_Witness ==
  \E p \in Procs :
    /\ pc[p] = "done"
    /\ call[p].op = "check_in"
    /\ result[p] = TOO_EARLY
    /\ loc[p].reservation.status = CONFIRMED
    /\ loc[p].reservation.check_in_date > today
    /\ reservations[call[p].id].status = CONFIRMED

\* C15: the reservation a successful create_reservation returns, which is
\* the one it stored, has nights = check_out_date - check_in_date,
\* price_per_night = the rate the call read from the hotel, and
\* total_price = nights x price_per_night x rooms
C15_CreatePrice ==
  \A p \in Procs :
    (pc[p] = "done" /\ call[p].op = "create" /\ result[p] = OK) =>
      LET rd == call[p].data
          reservation == loc[p].reservation
      IN /\ reservations[loc[p].id] = reservation
         /\ reservation.rooms = rd.rooms
         /\ reservation.nights = rd.check_out_date - rd.check_in_date
         /\ reservation.price_per_night = loc[p].hotel.price_per_night
         /\ reservation.total_price
              = reservation.nights * reservation.price_per_night * reservation.rooms

C15_Witness ==
  \E p \in Procs :
    /\ pc[p] = "done"
    /\ call[p].op = "create"
    /\ result[p] = OK
    /\ call[p].data.rooms = 2
    /\ call[p].data.check_out_date - call[p].data.check_in_date = 2
    /\ loc[p].hotel.price_per_night = 500
    /\ hotels[call[p].data.hotel_id].price_per_night = 450
    /\ reservations[loc[p].id].total_price = 2000

\* C16: a request to create a reservation whose check_out_date is not after
\* its check_in_date fails with the validation error at once; no reservation
\* document is added and no hotel is written
C16_BadDateRangeRejected ==
  [][\A p \in Procs :
       (Starts(p, "create")
          /\ call'[p].data.check_out_date <= call'[p].data.check_in_date) =>
         /\ pc'[p] = "done"
         /\ result'[p] = VALIDATION_ERROR
         /\ reservations' = reservations
         /\ hotels' = hotels]_vars

C16_Witness ==
  \E p \in Procs :
    /\ pc[p] = "done"
    /\ call[p].op = "create"
    /\ result[p] = VALIDATION_ERROR
    /\ call[p].data.check_in_date >= today
    /\ call[p].data.check_out_date = call[p].data.check_in_date
    /\ call[p].data.hotel_id \in DOMAIN hotels
    /\ hotels[call[p].data.hotel_id].available_rooms >= call[p].data.rooms

\* C17: after a successful update_reservation that gives check_in_date,
\* check_out_date or rooms, the stored reservation has
\* total_price = nights x price_per_night x rooms, with its own
\* price_per_night and the nights and rooms stored after the update
C17_UpdateKeepsTotalPrice ==
  \A p \in Procs :
    (/\ pc[p] = "done"
     /\ call[p].op = "update"
     /\ result[p] = OK
     /\ \/ call[p].data.check_in_date # None
        \/ call[p].data.check_out_date # None
        \/ call[p].data.rooms # None) =>
      LET reservation == reservations[call[p].id]
      IN reservation.total_price
           = reservation.nights * reservation.price_per_night * reservation.rooms

\* C18: no two stored reservations have the same confirmation_number
C18_ConfirmationNumbersUnique ==
  \A i, j \in DOMAIN reservations :
    i # j => reservations[i].confirmation_number # reservations[j].confirmation_number

\* the request of process p is turned away: access denied, nothing of the
\* reservation handed over, reservations and hotels as they were
Rejected(p) ==
  /\ pc'[p] = "done"
  /\ result'[p] = FORBIDDEN
  /\ loc'[p] = Nil
  /\ reservations' = reservations
  /\ hotels' = hotels

\* the step in which process p starts a request to the router
StartsRequest(p) == pc[p] = "idle" /\ pc'[p] # "idle" /\ "caller" \in DOMAIN call'[p]

\* C19: a request to get by id, get by confirmation number, update or cancel
\* a reservation made by a caller who neither owns it nor is an admin is
\* rejected as forbidden, returns nothing of the reservation and changes no
\* reservation and no hotel; a reservation is returned, and a reservation or
\* a hotel is written by an update or cancel request, only for a caller who
\* owns the reservation or is an admin
C19_OwnerOrAdminOnly ==
  [][\A p \in Procs :
       /\ \A id \in DOMAIN reservations :
            (/\ StartsRequest(p)
             /\ call'[p].op \in {"api_get", "api_update", "api_cancel"}
             /\ call'[p].id = id
             /\ reservations[id].user_id # call'[p].caller.id
             /\ ~call'[p].caller.is_admin) => Rejected(p)
       /\ (/\ StartsRequest(p)
           /\ call'[p].op = "api_get_by_confirmation"
           /\ \E id \in DOMAIN reservations :
                reservations[id].confirmation_number = call'[p].confirmation_number
           /\ \A id \in DOMAIN reservations :
                reservations[id].confirmation_number = call'[p].confirmation_number =>
                  /\ reservations[id].user_id # call'[p].caller.id
                  /\ ~call'[p].caller.is_admin) => Rejected(p)
       /\ (/\ StartsRequest(p)
           /\ call'[p].op \in {"api_get", "api_get_by_confirmation"}
           /\ result'[p] = OK) =>
            /\ loc'[p].reservation = reservations[loc'[p].id]
            /\ \/ loc'[p].reservation.user_id = call'[p].caller.id
               \/ call'[p].caller.is_admin
       /\ (StartsRequest(p) /\ result'[p] # OK) => loc'[p] = Nil
       /\ (/\ pc[p] # "idle"
           /\ "caller" \in DOMAIN call[p]
           /\ reservations' # reservations \/ hotels' # hotels) =>
            /\ call[p].op \in {"api_update", "api_cancel"}
            /\ \/ reservations[call[p].id].user_id = call[p].caller.id
               \/ call[p].caller.is_admin]_vars

C19_Witness ==
  \E p \in Procs :
    /\ pc[p] = "done"
    /\ call[p].op = "api_cancel"
    /\ result[p] = FORBIDDEN
    /\ ~call[p].caller.is_admin
    /\ reservations[call[p].id].user_id # call[p].caller.id
    /\ reservations[call[p].id].status = PENDING
    /\ loc[p] = Nil

\* the stored reservations that are well formed and satisfy every filter the
\* request sr gives
Matching(sr) ==
  {id \in DOMAIN reservations :
     LET r == reservations[id]
     IN /\ r.check_in_date \in Days
        /\ r.status \in ReservationStatus
        /\ sr.user_id = <<>> \/ r.user_id = sr.user_id
        /\ sr.hotel_id = NoneStr \/ r.hotel_id = sr.hotel_id
        /\ sr.status = NoneStr \/ r.status = sr.status
        /\ sr.guest_email = NoneStr \/ r.guest_email = sr.guest_email
        /\ sr.check_in_from = None \/ sr.check_in_from <= r.check_in_date
        /\ sr.check_in_to = None \/ r.check_in_date <= sr.check_in_to}

\* C20: a search whose page holds every result returns exactly the
\* well-formed stored reservations that satisfy all the filters given
\* (equality on user_id, hotel_id, status and guest_email,
\* check_in_from <= check_in_date <= check_in_to), and its total is their
\* number
C20_SearchMatchesFilters ==
  \A p \in Procs :
    (pc[p] = "done" /\ call[p].op = "search") =>
      /\ result[p] = OK
      /\ loc[p].total = Cardinality(Matching(call[p].data))
      /\ Len(loc[p].reservations) = loc[p].total
      /\ {loc[p].reservations[i] : i \in DOMAIN loc[p].reservations}
           = Matching(call[p].data)

C20_Witness ==
  \E p \in Procs :
    /\ pc[p] = "done"
    /\ call[p].op = "search"
    /\ call[p].data.user_id = UserA
    /\ call[p].data.status = PENDING
    /\ call[p].data.check_in_from = 1
    /\ call[p].data.check_in_to = 1
    /\ loc[p].total = 1
    /\ Len(reservations) = 2
    /\ \A id \in DOMAIN reservations :
         reservations[id].user_id = UserA /\ reservations[id].status = PENDING
    /\ \E id \in DOMAIN reservations : reservations[id].check_in_date = None

\* the pages 1..n of the search sr, one after the other
RECURSIVE PagesUpTo(_, _)
PagesUpTo(sr, n) ==
  IF n = 0 THEN <<>>
  ELSE PagesUpTo(sr, n - 1) \o SearchResult([sr EXCEPT !.page = n]).reservations

\* the sequence of ids follows the sort of the request sr
InSortOrder(ids, sr) ==
  \A i, j \in DOMAIN ids :
    i < j =>
      LET Key(id) == IF sr.sort_by = "check_in_date" THEN reservations[id].check_in_date
                     ELSE IF sr.sort_by = "total_price" THEN reservations[id].total_price
                     ELSE reservations[id].created_at
      IN IF sr.sort_order = "desc" THEN Key(ids[i]) >= Key(ids[j])
         ELSE Key(ids[i]) <= Key(ids[j])

\* C21: over a store that does not change, with the filters, the sort and
\* the limit fixed, the pages 1..total_pages of search_reservations put
\* one after the other are the filtered reservations in sort order, each
\* of them once and none left out
C21_PagesPartitionResult ==
  \A p \in Procs :
    (pc[p] = "done" /\ call[p].op = "search") =>
      LET sr == call[p].data
          all == PagesUpTo(sr, loc[p].total_pages)
      IN /\ Len(all) = Cardinality(Matching(sr))
         /\ {all[i] : i \in DOMAIN all} = Matching(sr)
         /\ \A i, j \in DOMAIN all : i # j => all[i] # all[j]
         /\ InSortOrder(all, sr)
         /\ loc[p].page <= loc[p].total_pages =>
              loc[p].reservations =
                SubSeq(all, (loc[p].page - 1) * loc[p].limit + 1,
                       IF loc[p].page * loc[p].limit < Len(all)
                       THEN loc[p].page * loc[p].limit ELSE Len(all))

C21_Witness ==
  \E p \in Procs :
    /\ pc[p] = "done"
    /\ call[p].op = "search"
    /\ call[p].data.limit = 1
    /\ call[p].data.page = 2
    /\ call[p].data.sort_by = "check_in_date"
    /\ call[p].data.sort_order = "asc"
    /\ loc[p].total_pages = 2
    /\ Len(reservations) = 2
    /\ reservations[1].check_in_date = 1
    /\ reservations[2].check_in_date = 0
    /\ loc[p].reservations = <<1>>

\* C22: for every page >= 1 and limit >= 1 search_reservations reports
\* total_pages = ceil(total / limit), has_next = (page < total_pages) and
\* has_previous = (page > 1); and when total is 0 it reports total_pages = 0
\* and neither a next nor a previous page, whatever page was asked for
C22_PageCounts ==
  \A p \in Procs :
    (pc[p] = "done" /\ call[p].op = "search") =>
      LET r == loc[p]
      IN /\ r.total_pages * r.limit >= r.total
         /\ (r.total_pages - 1) * r.limit < r.total
         /\ r.has_next = (r.page < r.total_pages)
         /\ r.has_previous = (r.page > 1)
         /\ r.total = 0 =>
              r.total_pages = 0 /\ ~r.has_next /\ ~r.has_previous

\* the stored hotels that are active and satisfy the city and the minimum
\* rating the query parameters give
MatchingHotels(params) ==
  {h \in DOMAIN hotels :
     /\ hotels[h].status = ACTIVE
     /\ params.city = NoneStr \/ hotels[h].city = params.city
     /\ params.min_rating = None \/ hotels[h].rating >= params.min_rating}

\* C23: a hotel search whose page holds every result returns exactly the
\* active hotels that satisfy all the filters given: every hotel returned
\* is active and satisfies them, and every stored active hotel that
\* satisfies them is returned
C23_HotelSearchMatchesFilters ==
  \A p \in Procs :
    (/\ pc[p] = "done" /\ call[p].op = "search_hotels"
     /\ call[p].data.page = 1 /\ call[p].data.limit = MaxLimit) =>
      {loc[p].hotels[i] : i \in DOMAIN loc[p].hotels} = MatchingHotels(call[p].data)

C25_InventoryReservedBeforePersist ==
  \A p \in Procs :
    (/\ pc[p] \notin {"idle", "authorised"}
     /\ call[p].op = "create"
     /\ loc[p] # Nil
     /\ loc[p].id \in DOMAIN reservations) =>
      pc[p] = "done"

\* C26: a create_reservation that ends in failure, a failure of the store
\* while persisting included, leaves available_rooms of the hotel at the
\* value it had before the call
C26_FailedCreateKeepsAvailability ==
  [][\A p \in Procs :
       (/\ pc[p] # "done" /\ pc'[p] = "done"
        /\ call'[p].op = "create"
        /\ result'[p] # OK) =>
         /\ hotels' = hotels
         /\ (pc[p] # "idle" /\ loc[p] # Nil) =>
              hotels'[call[p].data.hotel_id].available_rooms
                = loc[p].hotel.available_rooms]_vars

C26_Witness ==
  \E p \in Procs :
    /\ pc[p] = "done"
    /\ call[p].op = "create"
    /\ result[p] = STORE_ERROR
    /\ reservations = <<>>
    /\ hotels[call[p].data.hotel_id].available_rooms = loc[p].hotel.available_rooms
    /\ hotels[call[p].data.hotel_id].available_rooms >= call[p].data.rooms

\* C27: of two cancel_reservation calls that run concurrently on the same
\* reservation at most one succeeds, and the rooms of the reservation are
\* added to available_rooms once
C27_ConcurrentCancelsReleaseOnce ==
  \A p, q \in Procs :
    (/\ p # q
     /\ pc[p] = "done" /\ call[p].op = "cancel"
     /\ pc[q] = "done" /\ call[q].op = "cancel"
     /\ call[p].id = call[q].id) =>
      ~(result[p] = OK /\ result[q] = OK)

\* C28: when a cancel_reservation releasing the r rooms of one reservation
\* and a create_reservation reserving k rooms for another at the same hotel
\* interleave, both having read the availability a the hotel had before
\* them, and both succeed, the hotel is left with a + r - k rooms available
C28_CancelAndCreateBothCounted ==
  \A p, q \in Procs :
    (/\ pc[p] = "done" /\ call[p].op = "cancel" /\ result[p] = OK
     /\ pc[q] = "done" /\ call[q].op = "create" /\ result[q] = OK
     /\ call[p].id # loc[q].id
     /\ loc[p].hotel # Nil
     /\ loc[p].reservation.hotel_id = call[q].data.hotel_id
     /\ loc[p].hotel.available_rooms = loc[q].hotel.available_rooms) =>
      hotels[call[q].data.hotel_id].available_rooms
        = loc[q].hotel.available_rooms + loc[p].reservation.rooms - call[q].data.rooms

\* C29: available_rooms of a hotel changes only by the rooms of a
\* reservation being subtracted from it by a create_reservation or added to
\* it by a cancel_reservation; it is never overwritten with a value that
\* does not depend on the value it had
C29_AvailabilityChangesByRooms ==
  [][\A h \in DOMAIN hotels :
       hotels'[h].available_rooms # hotels[h].available_rooms =>
         \E p \in Procs :
           \/ /\ pc[p] = "create_availability"
              /\ pc'[p] = "done"
              /\ hotels'[h].available_rooms
                   = hotels[h].available_rooms - call[p].data.rooms
           \/ /\ pc[p] = "cancel_availability"
              /\ pc'[p] = "done"
              /\ hotels'[h].available_rooms
                   = hotels[h].available_rooms + loc[p].reservation.rooms]_vars

\* C30: update_reservation, also when it raises the rooms above the rooms
\* the hotel has available, check_in_reservation, check_out_reservation and
\* update_payment_status leave the hotels as they are; the hotels change
\* only in a step of a create_reservation or a cancel_reservation
C30_OnlyCreateAndCancelTouchInventory ==
  [][/\ \A p \in Procs :
          (/\ pc'[p] # pc[p]
           /\ pc'[p] # "idle"
           /\ call'[p].op \in {"update", "check_in", "check_out", "payment"}) =>
            hotels' = hotels
     /\ hotels' # hotels =>
          \E p \in Procs :
            /\ pc[p] \in {"create_availability", "cancel_availability"}
            /\ pc'[p] = "done"
            /\ call[p].op \in {"create", "cancel"}]_vars

C30_Witness ==
  \E p \in Procs :
    /\ pc[p] = "done"
    /\ call[p].op = "update"
    /\ result[p] = OK
    /\ reservations[call[p].id].status = CONFIRMED
    /\ reservations[call[p].id].rooms = MaxReqRooms
    /\ loc[p].reservation.rooms = MaxReqRooms
    /\ hotels[reservations[call[p].id].hotel_id].available_rooms < MaxReqRooms

\* C31: every stored reservation has guests <= max_guests of its hotel
\* times its rooms, right after create_reservation and after every
\* update_reservation that changes guests or rooms
C31_GuestsWithinCapacity ==
  \A id \in DOMAIN reservations :
    reservations[id].guests
      <= hotels[reservations[id].hotel_id].max_guests * reservations[id].rooms

\* C32: after every sequence of create_reservation and update_reservation
\* calls each stored reservation has check_out_date > check_in_date and
\* nights = check_out_date - check_in_date > 0; an update whose dates,
\* merged with the stored ones, give check_out_date <= check_in_date fails
\* and leaves the stored reservations as they are
C32_StoredDatesConsistent ==
  [][/\ \A id \in DOMAIN reservations' :
          /\ reservations'[id].check_out_date > reservations'[id].check_in_date
          /\ reservations'[id].nights
               = reservations'[id].check_out_date - reservations'[id].check_in_date
          /\ reservations'[id].nights > 0
     /\ \A p \in Procs : \A id \in DOMAIN reservations :
          (/\ Starts(p, "update")
           /\ call'[p].id = id
           /\ (IF call'[p].data.check_out_date # None
               THEN call'[p].data.check_out_date ELSE reservations[id].check_out_date)
                <= (IF call'[p].data.check_in_date # None
                    THEN call'[p].data.check_in_date ELSE reservations[id].check_in_date)) =>
            /\ pc'[p] = "done"
            /\ result'[p] = INVALID_DATES
            /\ reservations' = reservations]_vars

C32_Witness ==
  \E p \in Procs :
    /\ pc[p] = "done"
    /\ call[p].op = "update"
    /\ result[p] = INVALID_DATES
    /\ call[p].data.check_in_date = 1
    /\ call[p].data.check_out_date = None
    /\ reservations[call[p].id].check_in_date = 0
    /\ reservations[call[p].id].check_out_date = 1
    /\ reservations[call[p].id].nights = 1

\* C33: once a reservation is stored, no update_reservation,
\* cancel_reservation, check_in_reservation, check_out_reservation or
\* update_payment_status changes its confirmation_number, created_at,
\* price_per_night, hotel_id or user_id
C33_IdentityFieldsKept ==
  [][\A id \in DOMAIN reservations :
       /\ id \in DOMAIN reservations'
       /\ reservations'[id].confirmation_number = reservations[id].confirmation_number
       /\ reservations'[id].created_at = reservations[id].created_at
       /\ reservations'[id].price_per_night = reservations[id].price_per_night
       /\ reservations'[id].hotel_id = reservations[id].hotel_id
       /\ reservations'[id].user_id = reservations[id].user_id]_vars

C33_Witness ==
  \E p \in Procs :
    /\ pc[p] = "done"
    /\ call[p].op = "update"
    /\ result[p] = OK
    /\ reservations[call[p].id].rooms = MaxReqRooms
    /\ reservations[call[p].id].status = CHECKED_OUT
    /\ reservations[call[p].id].payment_status = PAID
    /\ reservations[call[p].id].confirmation_number
         = generate_confirmation_number(UserA, FirstToken)
    /\ reservations[call[p].id].price_per_night = 450

\* C34: the sequence search_reservations returns is ordered by the key
\* asked for (created_at, check_in_date or total_price, any other sort_by
\* standing for created_at), non-decreasing in ascending and non-increasing
\* in descending order, and reservations with equal keys stay in the order
\* the store returned them in, in both directions
C34_SortedAndStable ==
  \A p \in Procs :
    (pc[p] = "done" /\ call[p].op = "search") =>
      LET sr == call[p].data
          ids == loc[p].reservations
          Key(id) == CASE sr.sort_by = "check_in_date" -> reservations[id].check_in_date
                       [] sr.sort_by = "total_price" -> reservations[id].total_price
                       [] OTHER -> reservations[id].created_at
      IN /\ Len(ids) = Len(reservations)
         /\ \A i, j \in DOMAIN ids :
              i < j =>
                /\ sr.sort_order = "asc" => Key(ids[i]) <= Key(ids[j])
                /\ sr.sort_order = "desc" => Key(ids[i]) >= Key(ids[j])
                /\ Key(ids[i]) = Key(ids[j]) => ids[i] < ids[j]

C34_Witness ==
  \E p \in Procs :
    /\ pc[p] = "done"
    /\ call[p].op = "search"
    /\ call[p].data.sort_by = "total_price"
    /\ call[p].data.sort_order = "desc"
    /\ Len(reservations) = 2
    /\ reservations[1].total_price = reservations[2].total_price
    /\ reservations[1].created_at < reservations[2].created_at
    /\ loc[p].reservations = <<1, 2>>

\* the stored documents that cannot be rebuilt into a reservation
Malformed ==
  {id \in DOMAIN reservations :
     reservations[id].check_in_date = None
       \/ reservations[id].status \notin ReservationStatus}

\* C35: with a malformed record in the store search_reservations still
\* completes: the malformed record is left out and not counted in total,
\* every well-formed reservation that satisfies the filters is returned,
\* and a search that finds nothing succeeds with an empty result
C35_MalformedRecordSkipped ==
  \A p \in Procs :
    (pc[p] = "done" /\ call[p].op = "search") =>
      LET returned == {loc[p].reservations[i] : i \in DOMAIN loc[p].reservations}
      IN /\ result[p] = OK
         /\ returned \cap Malformed = {}
         /\ Matching(call[p].data) \ Malformed \subseteq returned
         /\ loc[p].total = Cardinality(returned)
         /\ Matching(call[p].data) = {} => loc[p].reservations = <<>> /\ loc[p].total = 0

C35_Witness ==
  \E p \in Procs :
    /\ pc[p] = "done"
    /\ call[p].op = "search"
    /\ call[p].data.user_id = <<>>
    /\ call[p].data.status = NoneStr
    /\ call[p].data.guest_email = NoneStr
    /\ call[p].data.hotel_id = NoneStr
    /\ call[p].data.check_in_from = None
    /\ call[p].data.check_in_to = None
    /\ Len(reservations) = 2
    /\ Malformed = {1}
    /\ loc[p].reservations = <<2>>
    /\ loc[p].total = 1
    /\ result[p] = OK

C37_HotelTotalOverAllPages ==
  \A p \in Procs :
    (pc[p] = "done" /\ call[p].op = "search_hotels") =>
      /\ loc[p].total = Cardinality(MatchingHotels(call[p].data))
      /\ loc[p].total_pages * call[p].data.limit >= loc[p].total
      /\ (loc[p].total_pages - 1) * call[p].data.limit < loc[p].total

\* C38: of a cancel_reservation and a check_in_reservation that run at the
\* same time on one CONFIRMED reservation at most one succeeds: the
\* reservation is never CHECKED_IN with its rooms given back to the hotel
C38_CancelOrCheckInNotBoth ==
  \A p, q \in Procs :
    ~ /\ pc[p] = "done" /\ call[p].op = "cancel" /\ result[p] = OK
      /\ pc[q] = "done" /\ call[q].op = "check_in" /\ result[q] = OK
      /\ call[p].id = call[q].id
      /\ reservations[call[p].id].status = CHECKED_IN
      /\ hotels[reservations[call[p].id].hotel_id].available_rooms
           = loc[p].hotel.available_rooms + reservations[call[p].id].rooms

\* C39: create_reservation returns a reservation only when the write of
\* the hotel's available_rooms succeeded as well: the step that ends a
\* call with a reservation is a write of the hotel's availability
C39_SuccessMeansRoomsTaken ==
  [][\A p \in Procs :
       (/\ pc[p] = "create_availability" /\ pc'[p] = "done"
        /\ result'[p] = OK) =>
         hotels'[loc[p].reservation.hotel_id].available_rooms
           # hotels[loc[p].reservation.hotel_id].available_rooms]_vars

\* C40: through the operations of the router a caller who is not an admin
\* changes the status of a reservation only by cancelling a reservation of
\* their own, and then to CANCELLED: an update with a status, a check-in, a
\* check-out and a payment status from such a caller write nothing
C40_NonAdminOnlyCancelsOwn ==
  [][\A id \in DOMAIN reservations :
       reservations'[id].status # reservations[id].status =>
         \A p \in Procs :
           pc'[p] # pc[p] =>
             \/ call[p].caller.is_admin
             \/ /\ call[p].op = "api_cancel"
                /\ reservations'[id].status = CANCELLED
                /\ reservations[id].user_id = call[p].caller.id]_vars

C40_Witness ==
  \E p \in Procs :
    /\ pc[p] = "done"
    /\ call[p].op = "api_update"
    /\ ~call[p].caller.is_admin
    /\ call[p].data.status = CHECKED_OUT
    /\ call[p].id \in DOMAIN reservations
    /\ reservations[call[p].id].user_id = call[p].caller.id
    /\ reservations[call[p].id].status = PENDING
    /\ result[p] = FORBIDDEN
====
